---------------------------- MODULE Spec2Model ----------------------------
(***************************************************************************)
(* Model of src/to_anytype.js, the Obsidian -> Anytype converter.          *)
(*                                                                         *)
(* Text is modelled character by character: a Text is a sequence of        *)
(* one-character strings, so that the regular expressions of the source    *)
(* (wiki links, embeds, markdown images, front matter, tags, code spans,   *)
(* whitespace runs) are computed the way the JavaScript engine computes    *)
(* them.  Three characters cannot be written inside a TLA+ string and are  *)
(* named instead: the double quote (DQ), the backtick (BT) and the         *)
(* backslash (BSL).                                                        *)
(*                                                                         *)
(* A path is a sequence of segment names (each a Text); the absolute path  *)
(* of the vault is VaultPath.                                              *)
(***************************************************************************)
EXTENDS Integers, Sequences, FiniteSets, TLC

VARIABLES
    vaultKind,    \* what vaultPath names: "dir", "file" or "missing"
    present,      \* the nodes of Universe that exist in the file system
    docText,      \* the content of the documents with variable content
    rev,          \* TRUE when readdirSync lists entries in reverse order
    broken,       \* the file whose read fails with an I/O error, None if none does
    pc,           \* position inside convertToAnytype
    rootFolders,  \* convertToAnytype's rootFolders array
    needEmpty,    \* createVaultSetFile.foldersNeedingEmptyFiles
    zip,          \* the entries appended to the archive, in order
    sets,         \* the Map `sets`: cache key -> set info
    exitCode,     \* process exit code (-1 while running)
    folderIdx,    \* the loop index of the loop over rootFolders
    fnIn,         \* input of the function under test (function-level specs)
    fnOut,        \* its results
    fnPc          \* position of the function-level specs

vars == <<vaultKind, present, docText, rev, broken, pc, rootFolders, needEmpty, zip,
          sets, exitCode, folderIdx, fnIn, fnOut, fnPc>>

-----------------------------------------------------------------------------
(* Characters *)

NL == "\n"
TAB == "\t"
DQ == "<dq>"
BT == "<bt>"
BSL == "<bsl>"
EOF == "<eof>"

\* printable ASCII from 32 (space) to 126 (~), in code order
Ascii ==
  <<" ", "!", DQ, "#", "$", "%", "&", "'", "(", ")", "*", "+", ",", "-", ".", "/",
    "0", "1", "2", "3", "4", "5", "6", "7", "8", "9", ":", ";", "<", "=", ">", "?",
    "@", "A", "B", "C", "D", "E", "F", "G", "H", "I", "J", "K", "L", "M", "N", "O",
    "P", "Q", "R", "S", "T", "U", "V", "W", "X", "Y", "Z", "[", BSL, "]", "^", "_",
    BT, "a", "b", "c", "d", "e", "f", "g", "h", "i", "j", "k", "l", "m", "n", "o",
    "p", "q", "r", "s", "t", "u", "v", "w", "x", "y", "z", "{", "|", "}", "~">>

\* the code unit of a character
CodeOf(c) ==
    IF c = NL THEN 10
    ELSE IF c = TAB THEN 9
    ELSE 31 + (CHOOSE i \in 1..Len(Ascii) : Ascii[i] = c)

UpperLetters ==
    {"A", "B", "C", "D", "E", "F", "G", "H", "I", "J", "K", "L", "M", "N", "O",
     "P", "Q", "R", "S", "T", "U", "V", "W", "X", "Y", "Z"}
LowerLetters ==
    {"a", "b", "c", "d", "e", "f", "g", "h", "i", "j", "k", "l", "m", "n", "o",
     "p", "q", "r", "s", "t", "u", "v", "w", "x", "y", "z"}
Digits == {"0", "1", "2", "3", "4", "5", "6", "7", "8", "9"}

IsUpper(c) == c \in UpperLetters
IsLowerLetter(c) == c \in LowerLetters
IsDigit(c) == c \in Digits

LowerOf ==
    [A |-> "a", B |-> "b", C |-> "c", D |-> "d", E |-> "e", F |-> "f",
     G |-> "g", H |-> "h", I |-> "i", J |-> "j", K |-> "k", L |-> "l",
     M |-> "m", N |-> "n", O |-> "o", P |-> "p", Q |-> "q", R |-> "r",
     S |-> "s", T |-> "t", U |-> "u", V |-> "v", W |-> "w", X |-> "x",
     Y |-> "y", Z |-> "z"]

\* String.prototype.toLowerCase, one character
LowerChar(c) == IF IsUpper(c) THEN LowerOf[c] ELSE c

\* regex \s
IsSpace(c) == c \in {" ", NL, TAB}
\* regex \w
IsWord(c) == IsUpper(c) \/ IsLowerLetter(c) \/ IsDigit(c) \/ c = "_"
\* regex [\s\W]
IsSpaceOrNonWord(c) == c # EOF /\ (IsSpace(c) \/ ~IsWord(c))

-----------------------------------------------------------------------------
(* Text helpers: the String methods the source uses *)

\* a value bound to a name: F applied to v
With(v, F(_)) == F(v)

MinOf(S) == CHOOSE x \in S : \A y \in S : x <= y
MaxOf(S) == CHOOSE x \in S : \A y \in S : y <= x

\* the first position of lo..hi that satisfies M, hi + 1 if none does: where the
\* next match of a global regex starts
NextAt(lo, hi, M(_)) == MinOf({p \in lo..hi : M(p)} \cup {hi + 1})

At(s, i) == IF i >= 1 /\ i <= Len(s) THEN s[i] ELSE EOF

Sub(s, a, b) == IF a > b THEN <<>> ELSE SubSeq(s, a, b)

\* s.slice(i - 1): the text from position i on
From(s, i) == Sub(s, i, Len(s))

ToLower(s) == [i \in 1..Len(s) |-> LowerChar(s[i])]

\* the literal lit occurs in s at position i
MatchAt(s, i, lit) ==
    /\ i >= 1
    /\ i + Len(lit) - 1 <= Len(s)
    /\ \A k \in 1..Len(lit) : s[i + k - 1] = lit[k]

StartsWith(s, lit) == MatchAt(s, 1, lit)
EndsWith(s, lit) == Len(lit) <= Len(s) /\ MatchAt(s, Len(s) - Len(lit) + 1, lit)

\* s.indexOf(c), 1-based; 0 when absent
IndexOf(s, c) ==
    With({i \in 1..Len(s) : s[i] = c},
         LAMBDA hits : IF hits = {} THEN 0 ELSE MinOf(hits))

\* first position >= i where lit occurs; 0 when there is none
Find(s, i, lit) ==
    With({p \in i..Len(s) : MatchAt(s, p, lit)},
         LAMBDA hits : IF hits = {} THEN 0 ELSE MinOf(hits))

\* length of the longest run of characters satisfying P, starting at i
RunLen(s, i, P(_)) ==
    IF i > Len(s) THEN 0
    ELSE MinOf({j \in i..(Len(s) + 1) : j = Len(s) + 1 \/ ~P(s[j])}) - i

\* String.prototype.trim
Trim(s) ==
    With(RunLen(s, 1, IsSpace), LAMBDA lead :
        IF lead = Len(s) THEN <<>>
        ELSE Sub(s, lead + 1, MaxOf({j \in 1..Len(s) : ~IsSpace(s[j])})))

RECURSIVE Concat(_)
Concat(ss) == IF ss = <<>> THEN <<>> ELSE Head(ss) \o Concat(Tail(ss))

\* Array.prototype.join(sep)
RECURSIVE JoinWith(_, _)
JoinWith(ss, sep) ==
    IF ss = <<>> THEN <<>>
    ELSE IF Len(ss) = 1 THEN ss[1]
    ELSE ss[1] \o sep \o JoinWith(Tail(ss), sep)

\* String.prototype.split(c) for a one-character separator
RECURSIVE SplitOn(_, _)
SplitOn(s, c) ==
    With(IndexOf(s, c), LAMBDA k :
        IF k = 0 THEN <<s>>
        ELSE <<Sub(s, 1, k - 1)>> \o SplitOn(From(s, k + 1), c))

\* comparison of two texts by UTF-16 code units (Array.prototype.sort default)
RECURSIVE TextLess(_, _)
TextLess(a, b) ==
    IF b = <<>> THEN FALSE
    ELSE IF a = <<>> THEN TRUE
    ELSE IF a[1] = b[1] THEN TextLess(Tail(a), Tail(b))
    ELSE CodeOf(a[1]) < CodeOf(b[1])

\* the texts of the set S as a sorted array
RECURSIVE SortTexts(_)
SortTexts(S) ==
    IF S = {} THEN <<>>
    ELSE With(CHOOSE x \in S : \A y \in S \ {x} : TextLess(x, y),
              LAMBDA m : <<m>> \o SortTexts(S \ {m}))

Range(f) == {f[i] : i \in DOMAIN f}

-----------------------------------------------------------------------------
(* extractTags *)

IsTagChar(c) == IsWord(c) \/ c = "-" \/ c = "/"
NotBacktick(c) == c # BT

Fence == <<BT, BT, BT>>

\* codeBlockRegex tried at position i: the position after the match, 0 if none
CodeSpanEnd(s, i) ==
    IF MatchAt(s, i, Fence) /\ Find(s, i + 3, Fence) # 0
    THEN Find(s, i + 3, Fence) + 3
    ELSE With(RunLen(s, i + 1, NotBacktick), LAMBDA n :
             IF At(s, i) = BT /\ n >= 1 /\ At(s, i + 1 + n) = BT THEN i + n + 2
             ELSE 0)

\* the loop of codeBlockRegex.exec: the parts of s outside code
RECURSIVE NonCodeParts(_, _, _)
NonCodeParts(s, i, last) ==
    With(NextAt(i, Len(s), LAMBDA p : CodeSpanEnd(s, p) # 0), LAMBDA m :
        IF m > Len(s)
        THEN IF last <= Len(s) THEN <<From(s, last)>> ELSE <<>>
        ELSE (IF m > last THEN <<Sub(s, last, m - 1)>> ELSE <<>>)
             \o With(CodeSpanEnd(s, m), LAMBDA e : NonCodeParts(s, e, e)))

TextToSearch(content) ==
    With(NonCodeParts(content, 1, 1),
         LAMBDA parts : IF Len(parts) > 0 THEN Concat(parts) ELSE content)

\* the tag of tagRegex with its '#' at position h: the length of the tag, 0 if none
TagLenAt(t, h) ==
    With({n \in 1..RunLen(t, h + 1, IsTagChar) :
             At(t, h + 1 + n) = EOF \/ IsSpaceOrNonWord(At(t, h + 1 + n))},
         LAMBDA ok : IF At(t, h) = "#" /\ ok # {} THEN MaxOf(ok) ELSE 0)

\* tagRegex tried at position i: the position of the '#' of the match, 0 if none
TagHashAt(t, i) ==
    IF i = 1 /\ TagLenAt(t, 1) > 0 THEN 1
    ELSE IF IsSpaceOrNonWord(At(t, i)) /\ TagLenAt(t, i + 1) > 0 THEN i + 1
    ELSE 0

\* the loop of tagRegex.exec from position i
RECURSIVE TagScan(_, _)
TagScan(t, i) ==
    With(NextAt(i, Len(t), LAMBDA p : TagHashAt(t, p) # 0), LAMBDA m :
        IF m > Len(t) THEN {}
        ELSE With(TagHashAt(t, m), LAMBDA h :
                 With(TagLenAt(t, h), LAMBDA n :
                     {Trim(Sub(t, h + 1, h + n))} \cup TagScan(t, h + n + 1))))

extractTags(content) == SortTexts(TagScan(TextToSearch(content), 1) \ {<<>>})

-----------------------------------------------------------------------------
(* JavaScript objects with string keys: Object.entries order *)

\* a canonical array index ("0", "7", "12"): such keys are enumerated first
IsIndexKey(k) ==
    /\ Len(k) >= 1
    /\ \A i \in 1..Len(k) : IsDigit(k[i])
    /\ (Len(k) = 1 \/ k[1] # "0")

\* numeric order of two index keys
IndexKeyLess(a, b) == Len(a) < Len(b) \/ (Len(a) = Len(b) /\ TextLess(a, b))

HasKey(obj, key) == \E i \in 1..Len(obj) : obj[i].k = key

GetKey(obj, key) == obj[CHOOSE i \in 1..Len(obj) : obj[i].k = key].v

\* obj[key] = val
SetKey(obj, key, val) ==
    IF HasKey(obj, key)
    THEN [i \in 1..Len(obj) |-> IF obj[i].k = key THEN [k |-> key, v |-> val] ELSE obj[i]]
    ELSE IF IsIndexKey(key)
    THEN With(Cardinality({i \in 1..Len(obj) :
                              IsIndexKey(obj[i].k) /\ IndexKeyLess(obj[i].k, key)}),
              LAMBDA n : Sub(obj, 1, n) \o <<[k |-> key, v |-> val]>> \o From(obj, n + 1))
    ELSE Append(obj, [k |-> key, v |-> val])

Str(t) == [isObj |-> FALSE, s |-> t, o |-> <<>>]
Obj(o) == [isObj |-> TRUE, s |-> <<>>, o |-> o]

-----------------------------------------------------------------------------
(* addPageMetadata *)

\* null, for a root set name or a found path (the empty text is falsy as well)
None == <<>>

\* a null setInfo
NoSetInfo == [nil |-> TRUE, rootSet |-> None]

T_Page == <<"P", "a", "g", "e">>
T_SetLeaf == <<"S", "e", "t", "L", "e", "a", "f">>
T_type == <<"t", "y", "p", "e">>
T_set == <<"s", "e", "t">>
T_tags == <<"t", "a", "g", "s">>
Dashes == <<"-", "-", "-">>

\* the closing `\s*\n` of frontmatterRegex tried at position i: the position of the
\* final newline, 0 if none (greedy: the last newline of the whitespace run)
SpacesThenNewline(s, i) ==
    With({j \in i..(i + RunLen(s, i, IsSpace) - 1) : s[j] = NL},
         LAMBDA nls : IF nls = {} THEN 0 ELSE MaxOf(nls))

\* `\n---\s*\n` at position p: the position of the final newline, 0 if none
CloseFenceAt(s, p) ==
    IF At(s, p) = NL /\ MatchAt(s, p + 1, Dashes) THEN SpacesThenNewline(s, p + 4) ELSE 0

\* frontmatterRegex = /^---\s*\n([\s\S]*?)\n---\s*\n/ matched against content.
\* The opening `\s*` is greedy and gives characters back; the group is lazy.
FenceCloses(content, j) ==
    {p \in (j + 1)..Len(content) : CloseFenceAt(content, p) # 0}

\* frontmatterRegex = /^---\s*\n([\s\S]*?)\n---\s*\n/ matched against content.
\* The opening `\s*` is greedy and gives characters back; the group is lazy.
FrontmatterMatch(content) ==
    With(IF MatchAt(content, 1, Dashes)
         THEN {j \in 4..(3 + RunLen(content, 4, IsSpace)) :
                  content[j] = NL /\ FenceCloses(content, j) # {}}
         ELSE {},
         LAMBDA good :
             IF good = {} THEN [ok |-> FALSE, group |-> <<>>, end |-> 0]
             ELSE With(MinOf(FenceCloses(content, MaxOf(good))), LAMBDA p :
                      [ok |-> TRUE, group |-> Sub(content, MaxOf(good) + 1, p - 1),
                       end |-> CloseFenceAt(content, p)]))

\* value.slice(1, -1) when the value is quoted
Unquote(value) ==
    IF (StartsWith(value, <<DQ>>) /\ EndsWith(value, <<DQ>>))
       \/ (StartsWith(value, <<"'">>) /\ EndsWith(value, <<"'">>))
    THEN Sub(value, 2, Len(value) - 1)
    ELSE value

\* the forEach over existingFrontmatter.split('\n')
RECURSIVE ParseLines(_, _)
ParseLine(line, colon, obj) ==
    IF colon > 1
    THEN SetKey(obj, Trim(Sub(line, 1, colon - 1)),
                Str(Unquote(Trim(From(line, colon + 1)))))
    ELSE obj

ParseLines(lines, obj) ==
    IF lines = <<>> THEN obj
    ELSE ParseLines(Tail(lines), ParseLine(Head(lines), IndexOf(Head(lines), ":"), obj))

\* tagsObj: tagsObj[tag] = tag for each tag of the array
RECURSIVE TagsObject(_, _)
TagsObject(tagList, obj) ==
    IF tagList = <<>> THEN obj
    ELSE TagsObject(Tail(tagList), SetKey(obj, Head(tagList), Head(tagList)))

\* frontmatterObj.tags.split(',').map(t => t.trim())
ExistingTags(obj) ==
    IF HasKey(obj, T_tags) /\ ~GetKey(obj, T_tags).isObj /\ GetKey(obj, T_tags).s # <<>>
    THEN {Trim(part) : part \in Range(SplitOn(GetKey(obj, T_tags).s, ","))}
    ELSE {}

TagEntryLine(e) == <<" ", " ">> \o e.k \o <<":", " ", DQ>> \o e.v \o <<DQ>>

\* one entry of the rebuilt front matter
EntryLine(e) ==
    IF e.k = T_tags /\ e.v.isObj
    THEN e.k \o <<":", NL>>
         \o JoinWith([i \in 1..Len(e.v.o) |-> TagEntryLine(e.v.o[i])], <<NL>>)
    ELSE e.k \o <<":", " ", DQ>> \o e.v.s \o <<DQ>>

Serialize(obj) == JoinWith([i \in 1..Len(obj) |-> EntryLine(obj[i])], <<NL>>)

\* GetSubstitution of String.prototype.replace(regex, string) with one capture group:
\* the replacement patterns $$, $&, $`, $', $1 and $01
RECURSIVE Substitute(_, _, _, _, _)
Substitute(repl, before, matched, after, group) ==
    With(IndexOf(repl, "$"), LAMBDA d :
        IF d = 0 \/ d = Len(repl) THEN repl
        ELSE Sub(repl, 1, d - 1)
             \o (IF repl[d + 1] = "$"
                 THEN <<"$">> \o Substitute(From(repl, d + 2), before, matched, after, group)
                 ELSE IF repl[d + 1] = "&"
                 THEN matched \o Substitute(From(repl, d + 2), before, matched, after, group)
                 ELSE IF repl[d + 1] = BT
                 THEN before \o Substitute(From(repl, d + 2), before, matched, after, group)
                 ELSE IF repl[d + 1] = "'"
                 THEN after \o Substitute(From(repl, d + 2), before, matched, after, group)
                 ELSE IF repl[d + 1] = "1"
                 THEN group \o Substitute(From(repl, d + 2), before, matched, after, group)
                 ELSE IF repl[d + 1] = "0" /\ At(repl, d + 2) = "1"
                 THEN group \o Substitute(From(repl, d + 3), before, matched, after, group)
                 ELSE <<"$">> \o Substitute(From(repl, d + 1), before, matched, after, group)))

\* setInfo && setInfo.rootSet
HasRootSet(setInfo) == ~setInfo.nil /\ setInfo.rootSet # None

\* frontmatterObj.type = pageType; frontmatterObj.set = setInfo.rootSet
WithTypeAndSet(obj, setInfo) ==
    IF HasRootSet(setInfo)
    THEN SetKey(SetKey(obj, T_type, Str(T_SetLeaf)), T_set, Str(setInfo.rootSet))
    ELSE SetKey(obj, T_type, Str(T_Page))

\* frontmatterObj.tags = tagsObj, when the content has tags
WithTags(obj, tags, allTags) ==
    IF Len(tags) > 0 THEN SetKey(obj, T_tags, Obj(TagsObject(allTags, <<>>))) ELSE obj

\* content.replace(frontmatterRegex, newFrontmatter)
ReplaceFrontmatter(content, match, after, newFrontmatter) ==
    Substitute(newFrontmatter, <<>>, Sub(content, 1, match.end), after, match.group)
    \o after

\* the branch of addPageMetadata for a content with front matter
MergeFrontmatter(content, match, tags, obj) ==
    ReplaceFrontmatter(content, match, From(content, match.end + 1),
        Dashes \o <<NL>>
        \o Serialize(WithTags(obj, tags, SortTexts(ExistingTags(obj) \cup Range(tags))))
        \o <<NL>> \o Dashes \o <<NL>>)

\* the branch of addPageMetadata for a content without front matter
NewFrontmatter(content, tags, obj) ==
    Dashes \o <<NL>> \o Serialize(WithTags(obj, tags, tags)) \o <<NL>> \o Dashes
    \o <<NL, NL>> \o content

AddMetadata(content, setInfo, tags, match) ==
    IF match.ok
    THEN MergeFrontmatter(content, match, tags,
                          WithTypeAndSet(ParseLines(SplitOn(match.group, NL), <<>>),
                                         setInfo))
    ELSE NewFrontmatter(content, tags, WithTypeAndSet(<<>>, setInfo))

addPageMetadata(content, setInfo) ==
    AddMetadata(content, setInfo, extractTags(content), FrontmatterMatch(content))

-----------------------------------------------------------------------------
(* Paths: the functions of Node's `path` module (POSIX) that the source uses *)

T_md == <<".", "m", "d">>
T_markdown == <<".", "m", "a", "r", "k", "d", "o", "w", "n">>
T_dotdot == <<".", ".">>

\* the absolute path of the current working directory
Cwd == <<>>

\* the name of the vault directory and vaultPath (resolved)
VaultName == <<"v">>
VaultPath == Cwd \o <<VaultName>>

\* path.dirname of an absolute path ("/" is its own parent)
Dirname(p) == IF p = <<>> THEN <<>> ELSE Sub(p, 1, Len(p) - 1)

\* path.basename of an absolute path
Basename(p) == IF p = <<>> THEN <<>> ELSE p[Len(p)]

\* path.extname of a file name
ExtName(name) ==
    With(MaxOf({i \in 1..Len(name) : name[i] = "."} \cup {0}),
         LAMBDA k : IF k <= 1 THEN <<>> ELSE From(name, k))

\* path.basename(name, ext)
BasenameNoExt(name, ext) ==
    IF ext # <<>> /\ name # ext /\ EndsWith(name, ext)
    THEN Sub(name, 1, Len(name) - Len(ext))
    ELSE name

\* normalisation of a list of segments: "" and "." are dropped, ".." pops
RECURSIVE NormalizeSegs(_, _)
NormalizeSegs(segs, acc) ==
    IF segs = <<>> THEN acc
    ELSE IF Head(segs) = <<>> \/ Head(segs) = <<".">> THEN NormalizeSegs(Tail(segs), acc)
    ELSE IF Head(segs) = T_dotdot THEN NormalizeSegs(Tail(segs), Dirname(acc))
    ELSE NormalizeSegs(Tail(segs), Append(acc, Head(segs)))

\* path.isAbsolute(text)
IsAbsolute(text) == At(text, 1) = "/"

\* path.join(base, text): text is taken relative to base even when it starts with "/"
PathJoin(base, text) == NormalizeSegs(SplitOn(text, "/"), base)

\* path.resolve(base, text)
PathResolve(base, text) ==
    IF IsAbsolute(text) THEN NormalizeSegs(SplitOn(text, "/"), <<>>) ELSE PathJoin(base, text)

\* path.resolve(p).toLowerCase(), the key of path comparisons
normalizePath(p) == [i \in 1..Len(p) |-> ToLower(p[i])]

\* the text of a relative path: its segments joined by "/"
PathText(segs) == JoinWith(segs, <<"/">>)

\* path.relative(from, to) as a list of segments
Relative(from, to) ==
    With(MaxOf({n \in 0..Len(from) : n <= Len(to) /\ Sub(from, 1, n) = Sub(to, 1, n)}),
         LAMBDA n : [i \in 1..(Len(from) - n) |-> T_dotdot] \o From(to, n + 1))

\* path.relative(from, to).replace(/\\/g, '/')
RelativeText(from, to) == PathText(Relative(from, to))

\* s.replace(/\\/g, '/')
SlashesForward(s) == [i \in 1..Len(s) |-> IF s[i] = BSL THEN "/" ELSE s[i]]

\* every whitespace character becomes r, also inside a run
ReplaceEachSpace(s, r) ==
    Concat([i \in 1..Len(s) |-> IF IsSpace(s[i]) THEN r ELSE <<s[i]>>])

\* part.replace(/\s+/g, r): every whitespace run becomes r
RECURSIVE ReplaceSpaceRuns(_, _)
ReplaceSpaceRuns(s, r) ==
    With(NextAt(1, Len(s), LAMBDA p : IsSpace(s[p])), LAMBDA m :
        IF m > Len(s) THEN s
        ELSE Sub(s, 1, m - 1) \o r
             \o ReplaceSpaceRuns(From(s, m + RunLen(s, m, IsSpace)), r))

sanitizePathForLink(filePath) ==
    With(SplitOn(SlashesForward(filePath), "/"), LAMBDA pathParts :
        JoinWith([i \in 1..Len(pathParts) |-> ReplaceSpaceRuns(pathParts[i], <<"_">>)],
                 <<"/">>))

-----------------------------------------------------------------------------
(* The file system: the vault is a part of a fixed universe of nodes *)

T_hi == <<"h", "i">>
PngBytes == <<"<png>">>

N_A == <<"A">>
N_a == <<"a">>
N_B == <<"B">>
N_E == <<"E">>
N_S == <<"S">>
N_R == <<"R", "$", "$">>
N_hidden == <<".", "h">>
N_trash == <<"t", "r", "a", "s", "h">>
N_attachments == <<"a", "t", "t", "a", "c", "h", "m", "e", "n", "t", "s">>
N_attachment == <<"a", "t", "t", "a", "c", "h", "m", "e", "n", "t">>
N_attachmentsUnderscore == N_attachments \o <<"_">>
N_attachmentsX == N_attachments \o <<"_", "x">>
N_x == <<"x", ".", "m", "d">>
N_DP == <<"D", " ", "P", ".", "m", "d">>
N_D_P == <<"D", "_", "P", ".", "m", "d">>
N_N == <<"N", ".", "m", "d">>
N_h == <<"h", ".", "m", "d">>
N_t == <<"t", ".", "m", "d">>
N_c == <<"c", ".", "p", "n", "g">>

Dir(p) == [path |-> p, kind |-> "dir", var |-> FALSE, content |-> <<>>]
Doc(p, c) == [path |-> p, kind |-> "file", var |-> FALSE, content |-> c]
VarDoc(p) == [path |-> p, kind |-> "file", var |-> TRUE, content |-> <<>>]

\* the candidate nodes, by their path below the vault root; a directory comes
\* before its content, and readdirSync lists a directory in this order (or in
\* the reverse order, see rev)
Universe == <<
    Dir(<<N_A>>),
    VarDoc(<<N_A, N_x>>),
    Doc(<<N_A, N_DP>>, T_hi),
    Dir(<<N_A, N_B>>),
    VarDoc(<<N_A, N_B, N_x>>),
    Dir(<<N_A, N_attachments>>),
    Doc(<<N_A, N_attachments, N_c>>, PngBytes),
    Dir(<<N_E>>),
    Dir(<<N_E, N_S>>),
    Doc(<<N_N>>, T_hi),
    Dir(<<N_hidden>>),
    Doc(<<N_hidden, N_h>>, T_hi),
    Dir(<<N_trash>>),
    Doc(<<N_trash, N_t>>, T_hi),
    Dir(<<N_R>>),
    VarDoc(<<N_R, N_x>>),
    Dir(<<N_attachments>>),
    Doc(<<N_attachments, N_c>>, PngBytes),
    Dir(<<N_E, N_hidden>>),
    Doc(<<N_E, N_hidden, N_h>>, T_hi),
    Dir(<<N_a>>),
    Doc(<<N_A, N_D_P>>, T_hi),
    Dir(<<N_attachmentsX>>),
    Doc(<<N_attachmentsX, N_c>>, PngBytes) >>

\* the node i of the universe as it appears in the file system
NodeOf(i) ==
    [ord |-> i, path |-> Universe[i].path, kind |-> Universe[i].kind,
     var |-> Universe[i].var, content |-> Universe[i].content]

NoNode == [ord |-> 0, path |-> <<>>, kind |-> "none", var |-> FALSE, content |-> <<>>]

\* the node of the vault at an absolute path, NoNode if the path names none
NodeAt(abs) ==
    With({n \in present : VaultPath \o n.path = abs}, LAMBDA hits :
        IF vaultKind = "dir" /\ hits # {} THEN CHOOSE n \in hits : TRUE ELSE NoNode)

IsFile(abs) ==
    \/ abs = VaultPath /\ vaultKind = "file"
    \/ NodeAt(abs).kind = "file"

IsDirectory(abs) ==
    \/ abs = VaultPath /\ vaultKind = "dir"
    \/ Len(abs) < Len(VaultPath) /\ abs = Sub(VaultPath, 1, Len(abs))
    \/ NodeAt(abs).kind = "dir"

\* fs.existsSync
existsSync(abs) == IsFile(abs) \/ IsDirectory(abs)

\* fs.readFileSync(abs) throws
ReadFails(abs) == broken # None /\ abs = broken

\* fs.readFileSync of a file that can be read
readFileSync(abs) ==
    With(NodeAt(abs), LAMBDA n : IF n.var THEN docText ELSE n.content)

RECURSIVE Ascending(_)
Ascending(S) ==
    IF S = {} THEN <<>>
    ELSE With(MinOf(S), LAMBDA m : <<m>> \o Ascending(S \ {m}))

Reverse(q) == [i \in 1..Len(q) |-> q[Len(q) + 1 - i]]

\* the entries of the directory abs, in the order of the universe
Listing(abs) ==
    With(Ascending({n.ord : n \in {c \in present : VaultPath \o Dirname(c.path) = abs}}),
         LAMBDA found :
             [k \in 1..Len(found) |->
                 Basename((CHOOSE n \in present : n.ord = found[k]).path)])

\* fs.readdirSync(abs): the names of the entries of a directory, in the order the
\* operating system returns them; empty when abs cannot be listed (the callers
\* catch the exception)
readdirSync(abs) ==
    IF ~IsDirectory(abs) THEN <<>>
    ELSE IF Len(abs) < Len(VaultPath)
    THEN IF vaultKind = "missing" THEN <<>> ELSE <<VaultPath[Len(abs) + 1]>>
    ELSE IF rev THEN Reverse(Listing(abs))
    ELSE Listing(abs)

-----------------------------------------------------------------------------
(* isDeleted and shouldIncludeFile *)

T_deleted == <<"d", "e", "l", "e", "t", "e", "d">>
T_status == <<"s", "t", "a", "t", "u", "s">>
T_deletedPrefix == T_deleted \o <<"_">>
T_trashPrefix == N_trash \o <<"_">>
T_deletedSuffix == <<"_">> \o T_deleted
T_trashSuffix == <<"_">> \o N_trash

\* regex \b at position i (between the characters i - 1 and i)
WordBoundary(s, i) == IsWord(At(s, i - 1)) # IsWord(At(s, i))

\* lit occurs at position i, ignoring case (lit is lower case)
MatchAtCI(s, i, lit) == MatchAt(ToLower(s), i, lit)

\* /\bdeleted\s*:\s*(true|yes|1)\b/i at position i
DeletedFlagAt(s, i) ==
    /\ WordBoundary(s, i)
    /\ MatchAtCI(s, i, T_deleted)
    /\ With(i + 7 + RunLen(s, i + 7, IsSpace), LAMBDA c :
           /\ At(s, c) = ":"
           /\ With(c + 1 + RunLen(s, c + 1, IsSpace), LAMBDA v :
                  \E alt \in {<<"t", "r", "u", "e">>, <<"y", "e", "s">>, <<"1">>} :
                      MatchAtCI(s, v, alt) /\ WordBoundary(s, v + Len(alt))))

\* /\bstatus\s*:\s*deleted\b/i at position i
StatusDeletedAt(s, i) ==
    /\ WordBoundary(s, i)
    /\ MatchAtCI(s, i, T_status)
    /\ With(i + 6 + RunLen(s, i + 6, IsSpace), LAMBDA c :
           /\ At(s, c) = ":"
           /\ With(c + 1 + RunLen(s, c + 1, IsSpace), LAMBDA v :
                  MatchAtCI(s, v, T_deleted) /\ WordBoundary(s, v + 7)))

IsMarkdownExt(ext) == ToLower(ext) \in {T_md, T_markdown}

\* the explicit deletion markers of a name
DeletedName(lowerName) ==
    \/ lowerName = T_deleted
    \/ lowerName = N_trash
    \/ StartsWith(lowerName, T_deletedPrefix)
    \/ StartsWith(lowerName, T_trashPrefix)
    \/ EndsWith(lowerName, T_deletedSuffix)
    \/ EndsWith(lowerName, T_trashSuffix)

\* an exclusion that looks at the whole path: some segment contains deleted or
\* trash
IsDeletedByPath(filePath, name) ==
    \E i \in 1..Len(filePath) :
        \/ Find(ToLower(filePath[i]), 1, T_deleted) # 0
        \/ Find(ToLower(filePath[i]), 1, N_trash) # 0

isDeleted(filePath, name) ==
    \/ DeletedName(ToLower(name))
    \/ /\ IsMarkdownExt(ExtName(Basename(filePath)))
       /\ IsFile(filePath)
       /\ ~ReadFails(filePath)
       /\ With(FrontmatterMatch(readFileSync(filePath)), LAMBDA match :
              /\ match.ok
              /\ \E i \in 1..Len(match.group) :
                    DeletedFlagAt(match.group, i) \/ StatusDeletedAt(match.group, i))

\* s.includes(lit)
Includes(s, lit) == Find(s, 1, lit) # 0

ExcludedFiles == {<<".", "o", "b", "s", "i", "d", "i", "a", "n">>,
                  <<".", "t", "r", "a", "s", "h">>,
                  <<".", "g", "i", "t">>}
ExcludedExtensions == {<<".", "o", "b", "s", "i", "d", "i", "a", "n">>,
                       <<".", "D", "S", "_", "S", "t", "o", "r", "e">>}
IncludedExtensions ==
    {<<".", "m", "d">>,
     <<".", "m", "a", "r", "k", "d", "o", "w", "n">>,
     <<".", "p", "n", "g">>,
     <<".", "j", "p", "g">>,
     <<".", "j", "p", "e", "g">>,
     <<".", "g", "i", "f">>,
     <<".", "s", "v", "g">>,
     <<".", "w", "e", "b", "p">>,
     <<".", "b", "m", "p">>,
     <<".", "i", "c", "o">>,
     <<".", "t", "i", "f", "f">>,
     <<".", "t", "i", "f">>,
     <<".", "h", "e", "i", "c">>,
     <<".", "h", "e", "i", "f">>,
     <<".", "p", "d", "f">>,
     <<".", "d", "o", "c">>,
     <<".", "d", "o", "c", "x">>,
     <<".", "x", "l", "s">>,
     <<".", "x", "l", "s", "x">>,
     <<".", "p", "p", "t">>,
     <<".", "p", "p", "t", "x">>,
     <<".", "o", "d", "t">>,
     <<".", "o", "d", "s">>,
     <<".", "o", "d", "p">>,
     <<".", "m", "p", "3">>,
     <<".", "m", "p", "4">>,
     <<".", "w", "a", "v">>,
     <<".", "o", "g", "g">>,
     <<".", "f", "l", "a", "c">>,
     <<".", "a", "a", "c">>,
     <<".", "m", "4", "a">>,
     <<".", "w", "m", "a">>,
     <<".", "a", "v", "i">>,
     <<".", "m", "o", "v">>,
     <<".", "w", "m", "v">>,
     <<".", "f", "l", "v">>,
     <<".", "m", "k", "v">>,
     <<".", "w", "e", "b", "m">>,
     <<".", "z", "i", "p">>,
     <<".", "r", "a", "r">>,
     <<".", "7", "z">>,
     <<".", "t", "a", "r">>,
     <<".", "g", "z">>,
     <<".", "t", "x", "t">>,
     <<".", "c", "s", "v">>,
     <<".", "j", "s", "o", "n">>,
     <<".", "x", "m", "l">>,
     <<".", "y", "a", "m", "l">>,
     <<".", "y", "m", "l">>,
     <<".", "t", "o", "m", "l">>,
     <<".", "j", "s">>,
     <<".", "t", "s">>,
     <<".", "p", "y">>,
     <<".", "j", "a", "v", "a">>,
     <<".", "c", "p", "p">>,
     <<".", "c">>,
     <<".", "h">>,
     <<".", "h", "t", "m", "l">>,
     <<".", "c", "s", "s">>,
     <<".", "r", "t", "f">>,
     <<".", "e", "p", "u", "b">>,
     <<".", "m", "o", "b", "i">>,
     <<".", "a", "z", "w">>,
     <<".", "f", "b", "2">>}

shouldIncludeFile(filePath) ==
    With(Basename(filePath), LAMBDA name :
        /\ ~isDeleted(filePath, name)
        /\ \A excluded \in ExcludedFiles :
              ~Includes(PathText(filePath), <<"/">> \o excluded)
        /\ \/ ToLower(ExtName(name)) \in IncludedExtensions
           \/ \A e \in ExcludedExtensions : ~Includes(name, e))

-----------------------------------------------------------------------------
(* The searches of the reference resolver *)

IsHidden(name) == At(name, 1) = "." /\ name # <<".">>

\* a step of a search: found when it is not null, else the candidate
Or(found, candidate) == IF found # None THEN found ELSE candidate

\* findFile of convertObsidianLinks: the first file named fileName + '.md' (ignoring
\* case) in a depth-first walk of dir, None if there is none
RECURSIVE findFile(_, _)
RECURSIVE FindFileIn(_, _, _)
FindFileIn(dir, names, fileName) ==
    IF names = <<>> THEN None
    ELSE Or(IF IsDirectory(Append(dir, Head(names)))
            THEN findFile(Append(dir, Head(names)), fileName)
            ELSE IF ToLower(Head(names)) = ToLower(fileName) \o T_md
            THEN Append(dir, Head(names))
            ELSE None,
            FindFileIn(dir, Tail(names), fileName))

findFile(dir, fileName) == FindFileIn(dir, readdirSync(dir), fileName)

RECURSIVE findFileRecursively(_, _, _, _)
RECURSIVE FindRecursivelyIn(_, _, _, _, _)
FindRecursivelyIn(searchDir, names, fileName, maxDepth, currentDepth) ==
    IF names = <<>> THEN None
    ELSE Or(IF IsHidden(Head(names)) THEN None
            ELSE IF isDeleted(Append(searchDir, Head(names)), Head(names)) THEN None
            ELSE IF IsFile(Append(searchDir, Head(names)))
            THEN IF ToLower(Head(names)) = ToLower(fileName)
                 THEN Append(searchDir, Head(names))
                 ELSE None
            ELSE findFileRecursively(Append(searchDir, Head(names)), fileName, maxDepth,
                                     currentDepth + 1),
            FindRecursivelyIn(searchDir, Tail(names), fileName, maxDepth, currentDepth))

findFileRecursively(searchDir, fileName, maxDepth, currentDepth) ==
    IF currentDepth >= maxDepth THEN None
    ELSE IF ~existsSync(searchDir) THEN None
    ELSE FindRecursivelyIn(searchDir, readdirSync(searchDir), fileName, maxDepth,
                           currentDepth)

-----------------------------------------------------------------------------
(* convertObsidianLinks *)

NotCloseBracket(c) == c # "]"
NotCloseParen(c) == c # ")"

\* wikiLinkRegex = /\[\[([^\]]+)\]\]/ tried at position i: the length of the
\* group, 0 if there is no match
WikiMatchAt(s, i) ==
    With(RunLen(s, i + 2, NotCloseBracket), LAMBDA n :
        IF MatchAt(s, i, <<"[", "[">>) /\ n >= 1 /\ MatchAt(s, i + 2 + n, <<"]", "]">>)
        THEN n ELSE 0)

\* the first element of a list of paths that exists, None if none does
RECURSIVE FirstExisting(_)
FirstExisting(paths) ==
    IF paths = <<>> THEN None
    ELSE IF existsSync(Head(paths)) THEN Head(paths)
    ELSE FirstExisting(Tail(paths))

\* a resolution that walks the vault before it looks into the directory of the
\* document
ResolveNoteVaultFirst(noteName, baseDir) ==
    Or(findFile(VaultPath, noteName),
       FirstExisting(<<PathJoin(baseDir, noteName \o T_md)>>))

\* foundPath of the replace callback of convertObsidianLinks
ResolveNote(noteName, baseDir) ==
    Or(FirstExisting(<<PathJoin(baseDir, noteName \o T_md),
                       PathJoin(baseDir, noteName \o T_md),
                       PathJoin(baseDir, ReplaceSpaceRuns(noteName, <<" ">>) \o T_md)>>),
       findFile(VaultPath, noteName))

\* the replace callback of convertObsidianLinks: the markdown link, and a record of
\* what was resolved
WikiResult(noteName, displayText, foundPath, target) ==
    [out |-> <<"[">> \o displayText \o <<"]", "(">> \o target \o <<")">>,
     link |-> [kind |-> "wiki", ref |-> noteName, alt |-> displayText,
               found |-> foundPath, target |-> target]]

WikiReplacementFor(noteName, displayText, foundPath) ==
    WikiResult(noteName, displayText, foundPath,
               IF foundPath # None
               THEN SlashesForward(RelativeText(VaultPath, foundPath))
               ELSE ReplaceSpaceRuns(noteName, <<" ">>) \o T_md)

WikiParts(parts, noteName, baseDir) ==
    WikiReplacementFor(noteName,
                       IF Len(parts) >= 2 /\ parts[2] # <<>> THEN Trim(parts[2])
                       ELSE noteName,
                       ResolveNote(noteName, baseDir))

\* the replace callback of convertObsidianLinks: the markdown link, and a record of
\* what was resolved
WikiReplacement(linkContent, baseDir) ==
    With(SplitOn(linkContent, "|"), LAMBDA parts :
        WikiParts(parts, Trim(parts[1]), baseDir))

\* content.replace(wikiLinkRegex, callback) from position i on
RECURSIVE WikiReplaceFrom(_, _, _)
WikiReplaceFrom(s, i, baseDir) ==
    With(NextAt(i, Len(s), LAMBDA p : WikiMatchAt(s, p) # 0), LAMBDA m :
        IF m > Len(s) THEN [text |-> From(s, i), links |-> <<>>]
        ELSE With(WikiMatchAt(s, m), LAMBDA n :
             With(WikiReplacement(Sub(s, m + 2, m + 1 + n), baseDir), LAMBDA rep :
             With(WikiReplaceFrom(s, m + n + 4, baseDir), LAMBDA r :
                 [text |-> Sub(s, i, m - 1) \o rep.out \o r.text,
                  links |-> <<rep.link>> \o r.links]))))

convertObsidianLinks(content, baseDir) == WikiReplaceFrom(content, 1, baseDir)

-----------------------------------------------------------------------------
(* convertImages *)

T_http == <<"h", "t", "t", "p", ":", "/", "/">>
T_https == <<"h", "t", "t", "p", "s", ":", "/", "/">>
T_data == <<"d", "a", "t", "a", ":">>

\* path.basename of a path written as text
BasenameText(text) ==
    With(SelectSeq(SplitOn(text, "/"), LAMBDA x : x # <<>>),
         LAMBDA segs : IF segs = <<>> THEN <<>> ELSE segs[Len(segs)])

\* the name of an attachments folder
IsAttachmentsName(name) ==
    With(ToLower(name), LAMBDA lowerName :
        \/ lowerName = N_attachments
        \/ lowerName = N_attachment
        \/ StartsWith(lowerName, N_attachmentsUnderscore))

\* the walk upwards from fileDir to the folder whose parent is the vault: at most
\* 10 steps, None if it is not reached
RECURSIVE RootFolderOf(_, _)
RootFolderOf(currentDir, i) ==
    IF i >= 10 THEN None
    ELSE IF normalizePath(Dirname(currentDir)) = normalizePath(VaultPath) THEN currentDir
    ELSE RootFolderOf(Dirname(currentDir), i + 1)

\* findFileRecursively(dir, ...) when dir exists
FindIfExists(dir, fileName) ==
    IF existsSync(dir) THEN findFileRecursively(dir, fileName, 10, 0) ELSE None

\* findAttachmentsFolders of the embed branch
RECURSIVE findAttachmentsFolders(_, _, _, _)
RECURSIVE FindAttachmentsIn(_, _, _, _, _)
FindAttachmentsIn(dir, names, imageFileName, maxDepth, currentDepth) ==
    IF names = <<>> THEN None
    ELSE IF ~IsDirectory(Append(dir, Head(names)))
    THEN FindAttachmentsIn(dir, Tail(names), imageFileName, maxDepth, currentDepth)
    ELSE Or(Or(IF IsAttachmentsName(Head(names))
               THEN findFileRecursively(Append(dir, Head(names)), imageFileName, 10, 0)
               ELSE None,
               findAttachmentsFolders(Append(dir, Head(names)), imageFileName, maxDepth,
                                      currentDepth + 1)),
            FindAttachmentsIn(dir, Tail(names), imageFileName, maxDepth, currentDepth))

findAttachmentsFolders(dir, imageFileName, maxDepth, currentDepth) ==
    IF currentDepth >= maxDepth THEN None
    ELSE FindAttachmentsIn(dir, readdirSync(dir), imageFileName, maxDepth, currentDepth)

\* a step of the embed search: keep p when it exists, else take the candidate when
\* the candidate is found
OrElse(p, candidate) ==
    IF ~existsSync(p) /\ candidate # None THEN candidate ELSE p

\* found when it exists, else None
IfExists(q) == IF existsSync(q) THEN q ELSE None

\* fullImagePath at the end of the search of the embed branch
EmbedSearchWith(imagePath, fileDir, imageFileName, attachmentsDir, vaultAttachmentsDir, rootFolder) ==
    OrElse(OrElse(OrElse(OrElse(OrElse(OrElse(OrElse(OrElse(OrElse(
        IF ~existsSync(IF IsAbsolute(imagePath) THEN PathResolve(<<>>, imagePath)
                       ELSE PathJoin(fileDir, imagePath))
        THEN PathJoin(VaultPath, imagePath)
        ELSE IF IsAbsolute(imagePath) THEN PathResolve(<<>>, imagePath)
        ELSE PathJoin(fileDir, imagePath),
        IfExists(PathJoin(attachmentsDir, imagePath))),
        IfExists(PathJoin(vaultAttachmentsDir, imagePath))),
        findFileRecursively(fileDir, imageFileName, 3, 0)),
        FindIfExists(attachmentsDir, imageFileName)),
        FindIfExists(vaultAttachmentsDir, imageFileName)),
        findFileRecursively(fileDir, imageFileName, 5, 0)),
        IF rootFolder # None THEN findFileRecursively(rootFolder, imageFileName, 10, 0)
        ELSE None),
        findAttachmentsFolders(VaultPath, imageFileName, 5, 0)),
        findFileRecursively(VaultPath, imageFileName, 10, 0))

\* fullImagePath at the end of the search of the embed branch
EmbedSearch(imagePath, fileDir) ==
    EmbedSearchWith(imagePath, fileDir, BasenameText(imagePath),
                    Append(fileDir, N_attachments), Append(VaultPath, N_attachments),
                    RootFolderOf(fileDir, 0))

IsUrl(text) == StartsWith(text, T_http) \/ StartsWith(text, T_https)

\* embedRegex = /!\[\[([^\]]+)\]\]/ tried at position i: the length of the group
EmbedMatchAt(s, i) == IF At(s, i) = "!" THEN WikiMatchAt(s, i + 1) ELSE 0

\* the replace callback of the embed branch
\* linkPath of the embed branch, for an image that was found
EmbedLinkPath(imagePath, relativePath) ==
    IF StartsWith(relativePath, <<".", ".", "/">>) THEN imagePath ELSE relativePath

\* imagePathToUse of the embed branch, for an image that was not found
EmbedPathToUse(imagePath, relativeFromVault) ==
    IF ~IsAbsolute(imagePath) /\ ~IsUrl(imagePath)
       /\ ~StartsWith(relativeFromVault, T_dotdot)
    THEN SlashesForward(relativeFromVault)
    ELSE imagePath

EmbedResult(imagePath, alt, found, sanitizedPath) ==
    [out |-> <<"!", "[">> \o alt \o <<"]", "(">> \o sanitizedPath \o <<")">>,
     link |-> [kind |-> "embed", ref |-> imagePath, alt |-> alt, found |-> found,
               target |-> sanitizedPath]]

EmbedReplacementFor(imagePath, fileDir, fullImagePath, name) ==
    IF existsSync(fullImagePath)
    THEN EmbedResult(imagePath, BasenameNoExt(name, ExtName(name)), fullImagePath,
                     SlashesForward(sanitizePathForLink(EmbedLinkPath(imagePath,
                         SlashesForward(RelativeText(VaultPath, fullImagePath))))))
    ELSE EmbedResult(imagePath, name, None,
                     SlashesForward(sanitizePathForLink(EmbedPathToUse(imagePath,
                         RelativeText(VaultPath, PathJoin(fileDir, imagePath))))))

\* the replace callback of the embed branch
EmbedReplacement(imagePath, fileDir) ==
    EmbedReplacementFor(imagePath, fileDir, EmbedSearch(imagePath, fileDir),
                        BasenameText(imagePath))

RECURSIVE EmbedReplaceFrom(_, _, _)
EmbedReplaceFrom(s, i, fileDir) ==
    With(NextAt(i, Len(s), LAMBDA p : EmbedMatchAt(s, p) # 0), LAMBDA m :
        IF m > Len(s) THEN [text |-> From(s, i), links |-> <<>>]
        ELSE With(EmbedMatchAt(s, m), LAMBDA n :
             With(EmbedReplacement(Sub(s, m + 3, m + 2 + n), fileDir), LAMBDA rep :
             With(EmbedReplaceFrom(s, m + n + 5, fileDir), LAMBDA r :
                 [text |-> Sub(s, i, m - 1) \o rep.out \o r.text,
                  links |-> <<rep.link>> \o r.links]))))

\* the extensions of the path-suffix repair
FileExts ==
    {<<".", "p", "n", "g">>,
     <<".", "j", "p", "g">>,
     <<".", "j", "p", "e", "g">>,
     <<".", "g", "i", "f">>,
     <<".", "s", "v", "g">>,
     <<".", "w", "e", "b", "p">>,
     <<".", "b", "m", "p">>,
     <<".", "i", "c", "o">>,
     <<".", "t", "i", "f", "f">>,
     <<".", "t", "i", "f">>,
     <<".", "h", "e", "i", "c">>,
     <<".", "h", "e", "i", "f">>,
     <<".", "p", "d", "f">>,
     <<".", "d", "o", "c">>,
     <<".", "d", "o", "c", "x">>,
     <<".", "x", "l", "s">>,
     <<".", "x", "l", "s", "x">>,
     <<".", "p", "p", "t">>,
     <<".", "p", "p", "t", "x">>,
     <<".", "o", "d", "t">>,
     <<".", "o", "d", "s">>,
     <<".", "o", "d", "p">>,
     <<".", "m", "p", "3">>,
     <<".", "m", "p", "4">>,
     <<".", "w", "a", "v">>,
     <<".", "o", "g", "g">>,
     <<".", "f", "l", "a", "c">>,
     <<".", "a", "a", "c">>,
     <<".", "m", "4", "a">>,
     <<".", "w", "m", "a">>,
     <<".", "a", "v", "i">>,
     <<".", "m", "o", "v">>,
     <<".", "w", "m", "v">>,
     <<".", "f", "l", "v">>,
     <<".", "m", "k", "v">>,
     <<".", "w", "e", "b", "m">>,
     <<".", "z", "i", "p">>,
     <<".", "r", "a", "r">>,
     <<".", "7", "z">>,
     <<".", "t", "a", "r">>,
     <<".", "g", "z">>,
     <<".", "t", "x", "t">>,
     <<".", "c", "s", "v">>,
     <<".", "j", "s", "o", "n">>,
     <<".", "x", "m", "l">>,
     <<".", "h", "t", "m", "l">>,
     <<".", "c", "s", "s">>,
     <<".", "j", "s">>}

\* cleanImagePath: a '.md' appended to a file path is removed
CleanImagePath(imagePath) ==
    IF EndsWith(ToLower(imagePath), T_md)
       /\ \E ext \in FileExts :
             EndsWith(ToLower(Sub(imagePath, 1, Len(imagePath) - 3)), ext)
    THEN Sub(imagePath, 1, Len(imagePath) - 3)
    ELSE imagePath

\* fullImagePath of the markdown image branch, None when nothing is found
ImageSearchWith(cleanImagePath, fileDir, imageFileName, attachmentsDir, vaultAttachmentsDir, rootFolder) ==
    Or(Or(Or(Or(Or(
        FirstExisting(<<PathJoin(fileDir, cleanImagePath),
                        PathJoin(VaultPath, cleanImagePath),
                        PathJoin(attachmentsDir, cleanImagePath),
                        PathJoin(vaultAttachmentsDir, cleanImagePath)>>),
        findFileRecursively(fileDir, imageFileName, 5, 0)),
        FindIfExists(attachmentsDir, imageFileName)),
        FindIfExists(vaultAttachmentsDir, imageFileName)),
        IF rootFolder # None THEN findFileRecursively(rootFolder, imageFileName, 10, 0)
        ELSE None),
        findFileRecursively(VaultPath, imageFileName, 10, 0))

\* fullImagePath of the markdown image branch, None when nothing is found
ImageSearch(cleanImagePath, fileDir) ==
    IF StartsWith(cleanImagePath, <<".", "/">>)
       \/ StartsWith(cleanImagePath, <<".", ".", "/">>)
    THEN IfExists(PathResolve(fileDir, cleanImagePath))
    ELSE IF ~IsAbsolute(cleanImagePath)
    THEN ImageSearchWith(cleanImagePath, fileDir, BasenameText(cleanImagePath),
                         Append(fileDir, N_attachments),
                         Append(VaultPath, N_attachments), RootFolderOf(fileDir, 0))
    ELSE IfExists(PathResolve(<<>>, cleanImagePath))

\* markdownImageRegex = /!\[([^\]]*)\]\(([^)]+)\)/ tried at position i: the lengths of
\* the two groups, or ok = FALSE
ImageGroups(s, i, a, b) ==
    [ok |-> /\ MatchAt(s, i, <<"!", "[">>)
            /\ MatchAt(s, i + 2 + a, <<"]", "(">>)
            /\ b >= 1
            /\ At(s, i + 4 + a + b) = ")",
     alt |-> a, path |-> b]

ImageMatchAt(s, i) ==
    With(RunLen(s, i + 2, NotCloseBracket), LAMBDA a :
        ImageGroups(s, i, a, RunLen(s, i + 4 + a, NotCloseParen)))

\* the replace callback of the markdown image branch
\* resolvedPath of the markdown image branch
ImageResolvedPath(cleanImagePath, fullImagePath, relativeFromVault) ==
    IF fullImagePath # None /\ ~StartsWith(relativeFromVault, T_dotdot)
    THEN SlashesForward(relativeFromVault)
    ELSE cleanImagePath

ImageResult(altText, imagePath, fullImagePath, sanitizedPath) ==
    [out |-> <<"!", "[">> \o altText \o <<"]", "(">> \o sanitizedPath \o <<")">>,
     link |-> <<[kind |-> "image", ref |-> imagePath, alt |-> altText,
                 found |-> fullImagePath, target |-> sanitizedPath]>>]

ImageReplacementFor(altText, imagePath, cleanImagePath, fullImagePath) ==
    ImageResult(altText, imagePath, fullImagePath,
                SlashesForward(sanitizePathForLink(ImageResolvedPath(
                    cleanImagePath, fullImagePath,
                    RelativeText(VaultPath, fullImagePath)))))

\* the replace callback of the markdown image branch
ImageReplacement(matched, altText, imagePath, fileDir) ==
    IF IsUrl(imagePath) \/ StartsWith(imagePath, T_data)
    THEN [out |-> matched, link |-> <<>>]
    ELSE With(CleanImagePath(imagePath), LAMBDA cleanImagePath :
             ImageReplacementFor(altText, imagePath, cleanImagePath,
                                 ImageSearch(cleanImagePath, fileDir)))

RECURSIVE ImageReplaceFrom(_, _, _)
ImageReplaceFrom(s, i, fileDir) ==
    With(NextAt(i, Len(s), LAMBDA p : ImageMatchAt(s, p).ok), LAMBDA m :
        IF m > Len(s) THEN [text |-> From(s, i), links |-> <<>>]
        ELSE With(ImageMatchAt(s, m), LAMBDA g :
             With(m + 4 + g.alt + g.path, LAMBDA e :
             With(ImageReplacement(Sub(s, m, e), Sub(s, m + 2, m + 1 + g.alt),
                                   Sub(s, m + 4 + g.alt, e - 1), fileDir), LAMBDA rep :
             With(ImageReplaceFrom(s, e + 1, fileDir), LAMBDA r :
                 [text |-> Sub(s, i, m - 1) \o rep.out \o r.text,
                  links |-> rep.link \o r.links])))))

convertImages(content, fileDir) ==
    With(EmbedReplaceFrom(content, 1, fileDir), LAMBDA embeds :
        With(ImageReplaceFrom(embeds.text, 1, fileDir), LAMBDA images :
            [text |-> images.text, links |-> embeds.links \o images.links]))

-----------------------------------------------------------------------------
(* processMarkdownFile *)

processMarkdownFile(filePath, setInfo) ==
    With(convertObsidianLinks(readFileSync(filePath), Dirname(filePath)), LAMBDA linked :
        With(convertImages(linked.text, Dirname(filePath)), LAMBDA imaged :
            [text |-> addPageMetadata(imaged.text, setInfo),
             wikiLinks |-> linked.links,
             imageLinks |-> imaged.links]))

-----------------------------------------------------------------------------
(* The hierarchy classifier: root sets and the cache `sets` *)

\* the text of an absolute path
AbsText(p) == <<"/">> \o PathText(p)

isRootLevelFolder(dirPath, rootPath) ==
    normalizePath(Dirname(dirPath)) = normalizePath(rootPath)

\* the result of a loop that never ends
Diverges == <<"<diverges>">>

\* the while (true) loop of getRootSetForPathExport
RECURSIVE WalkUp(_, _, _)
WalkUp(currentDir, dirPath, exportRootPath) ==
    IF normalizePath(Dirname(currentDir)) = normalizePath(exportRootPath)
    THEN IF ~isDeleted(currentDir, Basename(currentDir)) THEN Basename(currentDir)
         ELSE None
    ELSE IF normalizePath(dirPath) = normalizePath(Dirname(currentDir)) THEN None
    ELSE IF Dirname(currentDir) = currentDir THEN Diverges
    ELSE WalkUp(Dirname(currentDir), dirPath, exportRootPath)

getRootSetForPathExport(dirPath, exportRootPath) ==
    IF normalizePath(dirPath) = normalizePath(exportRootPath) THEN None
    ELSE IF isRootLevelFolder(dirPath, exportRootPath)
    THEN IF ~isDeleted(dirPath, Basename(dirPath)) THEN Basename(dirPath) ELSE None
    ELSE WalkUp(dirPath, dirPath, exportRootPath)

T_Root == <<"R", "o", "o", "t">>
T_setFile == <<".", "s", "e", "t", ".", "m", "d">>

\* cacheKey of getSetInfoForExport
CacheKey(dirPath, exportRootPath) ==
    AbsText(normalizePath(dirPath)) \o <<"_">> \o AbsText(normalizePath(exportRootPath))

\* the set info that getSetInfoForExport builds when the cache has none
SetInfoOf(dirPath, relativePath, exportRootPath, dirName, deleted, isRootSet) ==
    [nil |-> FALSE,
     name |-> IF dirName # <<>> THEN dirName ELSE T_Root,
     path |-> dirPath,
     relativePath |-> relativePath,
     isRootSet |-> ~deleted /\ isRootSet,
     rootSet |-> IF deleted THEN None
                 ELSE IF isRootSet THEN dirName
                 ELSE getRootSetForPathExport(dirPath, exportRootPath),
     setFileName |-> IF relativePath # <<>>
                     THEN SlashesForward(relativePath) \o <<"/">> \o T_setFile
                     ELSE T_setFile,
     isDeleted |-> deleted]

\* isDeleted of getSetInfoForExport: the markers it looks for in the name
DeletedSetName(lowerName) ==
    \/ lowerName = T_deleted
    \/ lowerName = N_trash
    \/ StartsWith(lowerName, T_deletedPrefix)
    \/ StartsWith(lowerName, T_trashPrefix)

\* the set info that getSetInfoForExport builds when the cache has none
NewSetInfo(dirPath, relativePath, exportRootPath) ==
    SetInfoOf(dirPath, relativePath, exportRootPath, Basename(dirPath),
              DeletedSetName(ToLower(Basename(dirPath))),
              isRootLevelFolder(dirPath, exportRootPath))

\* getSetInfoForExport: the Map after the call; the result is cache[CacheKey(...)]
getSetInfoForExport(cache, dirPath, relativePath, exportRootPath) ==
    With(CacheKey(dirPath, exportRootPath), LAMBDA cacheKey :
        IF cacheKey \in DOMAIN cache THEN cache
        ELSE (cacheKey :> NewSetInfo(dirPath, relativePath, exportRootPath)) @@ cache)

-----------------------------------------------------------------------------
(* processDirectory *)

\* path.join(relativePath, name).replace(/\\/g, '/') of two relative path texts
JoinText(relativePath, name) ==
    SlashesForward(PathText(NormalizeSegs(SplitOn(relativePath, "/") \o SplitOn(name, "/"),
                                          <<>>)))

\* the entries of dir that pass the filter of the first loop of processDirectory
KeptEntries(dir) ==
    SelectSeq(readdirSync(dir),
              LAMBDA name : ~IsHidden(name) /\ ~isDeleted(Append(dir, name), name))

DirectoriesOf(dir) == SelectSeq(KeptEntries(dir), LAMBDA name : IsDirectory(Append(dir, name)))

FilesOf(dir) ==
    SelectSeq(KeptEntries(dir),
              LAMBDA name : IsFile(Append(dir, name)) /\ shouldIncludeFile(Append(dir, name)))

\* noteSetInfo of a markdown file of dir: the Map after the assignment to
\* noteSetInfo.rootSet (the set info is the object stored in the Map)
FixRootSet(cache, cacheKey, rootSet) ==
    IF rootSet # None /\ cache[cacheKey].rootSet # rootSet
    THEN [cache EXCEPT ![cacheKey].rootSet = rootSet]
    ELSE cache

\* noteSetInfo of a markdown file of dir: the Map after the assignment to
\* noteSetInfo.rootSet (the set info is the object stored in the Map)
NoteSetCache(cache, dir, effectiveRootPath) ==
    IF normalizePath(dir) # normalizePath(VaultPath)
    THEN FixRootSet(cache, CacheKey(dir, effectiveRootPath),
                    getRootSetForPathExport(dir, effectiveRootPath))
    ELSE cache

Entry(kind, name, src, content, wikiLinks, imageLinks) ==
    [kind |-> kind, name |-> name, src |-> src, content |-> content,
     wikiLinks |-> wikiLinks, imageLinks |-> imageLinks]

\* the loop over files of processDirectory: the entries appended and the Map
RECURSIVE ProcessFiles(_, _, _, _, _)
\* entryRelativePath of the loops of processDirectory
EntryRelativePath(relativePath, name) ==
    IF relativePath # <<>> THEN JoinText(relativePath, name) ELSE name

PageEntry(sanitizedPath, fullPath, page) ==
    <<Entry("page", sanitizedPath, fullPath, page.text, page.wikiLinks,
            page.imageLinks)>>

\* what one pass of the loop over files appends to the archive
FileEntries(cache, dir, name, sanitizedPath, effectiveRootPath) ==
    IF IsMarkdownExt(ExtName(name))
    THEN IF name = T_setFile THEN <<>>
         ELSE PageEntry(sanitizedPath, Append(dir, name),
                        processMarkdownFile(Append(dir, name),
                            IF normalizePath(dir) # normalizePath(VaultPath)
                            THEN cache[CacheKey(dir, effectiveRootPath)]
                            ELSE NoSetInfo))
    ELSE <<Entry("file", sanitizedPath, Append(dir, name),
                 readFileSync(Append(dir, name)), <<>>, <<>>)>>

\* the read of one pass of the loop over files throws: fs.readFileSync of
\* processMarkdownFile or of processDirectory
FileReadFails(dir, name) ==
    /\ ReadFails(Append(dir, name))
    /\ ~(IsMarkdownExt(ExtName(name)) /\ name = T_setFile)

\* the Map after one pass of the loop over files
CacheAfterFile(cache, dir, name, effectiveRootPath) ==
    IF IsMarkdownExt(ExtName(name)) /\ name # T_setFile
    THEN NoteSetCache(cache, dir, effectiveRootPath)
    ELSE cache

ProcessFiles(cache, dir, names, relativePath, effectiveRootPath) ==
    IF names = <<>> THEN [entries |-> <<>>, cache |-> cache, threw |-> FALSE]
    ELSE With(CacheAfterFile(cache, dir, Head(names), effectiveRootPath), LAMBDA cache2 :
         IF FileReadFails(dir, Head(names))
         THEN [entries |-> <<>>, cache |-> cache2, threw |-> TRUE]
         ELSE With(ProcessFiles(cache2, dir, Tail(names), relativePath, effectiveRootPath),
                   LAMBDA rest :
                  [entries |-> FileEntries(cache2, dir, Head(names),
                                   sanitizePathForLink(
                                       EntryRelativePath(relativePath, Head(names))),
                                   effectiveRootPath)
                               \o rest.entries,
                   cache |-> rest.cache,
                   threw |-> rest.threw]))

RECURSIVE processDirectory(_, _, _, _)
RECURSIVE ProcessSubdirectories(_, _, _, _, _)
ProcessSubdirectories(cache, dir, names, relativePath, effectiveRootPath) ==
    IF names = <<>> THEN [entries |-> <<>>, cache |-> cache]
    ELSE With(processDirectory(cache, Append(dir, Head(names)),
                               sanitizePathForLink(
                                   EntryRelativePath(relativePath, Head(names))),
                               effectiveRootPath), LAMBDA first :
         With(ProcessSubdirectories(first.cache, dir, Tail(names), relativePath,
                                    effectiveRootPath), LAMBDA rest :
             [entries |-> first.entries \o rest.entries, cache |-> rest.cache]))

\* processDirectory(dir, zip, relativePath, exportRootPath): the entries it appends
\* to the archive, in order, and the Map `sets` when it returns
processDirectory(cache, dir, relativePath, effectiveRootPath) ==
    IF isDeleted(dir, Basename(dir)) THEN [entries |-> <<>>, cache |-> cache]
    ELSE With(ProcessFiles(getSetInfoForExport(cache, dir, relativePath,
                                               effectiveRootPath),
                           dir, FilesOf(dir), relativePath, effectiveRootPath),
              LAMBDA files :
         IF files.threw THEN [entries |-> files.entries, cache |-> files.cache]
         ELSE With(ProcessSubdirectories(files.cache, dir, DirectoriesOf(dir),
                                         relativePath, effectiveRootPath), LAMBDA subs :
             [entries |-> files.entries \o subs.entries, cache |-> subs.cache]))

-----------------------------------------------------------------------------
(* The container index builder *)

\* String.prototype.localeCompare, as far as the names of the model need it: the
\* first level compares the characters without their case, punctuation before
\* digits before letters; names equal at that level are ordered by the case of
\* their first differing character, lower case first
CollationClass(c) ==
    IF IsUpper(c) \/ IsLowerLetter(c) THEN 2 ELSE IF IsDigit(c) THEN 1 ELSE 0

PrimaryLess(c, d) ==
    \/ CollationClass(c) < CollationClass(d)
    \/ CollationClass(c) = CollationClass(d) /\ CodeOf(LowerChar(c)) < CodeOf(LowerChar(d))

RECURSIVE PrimaryCompare(_, _)
PrimaryCompare(a, b) ==
    IF a = <<>> /\ b = <<>> THEN 0
    ELSE IF a = <<>> THEN -1
    ELSE IF b = <<>> THEN 1
    ELSE IF PrimaryLess(a[1], b[1]) THEN -1
    ELSE IF PrimaryLess(b[1], a[1]) THEN 1
    ELSE PrimaryCompare(Tail(a), Tail(b))

RECURSIVE CaseLess(_, _)
CaseLess(a, b) ==
    IF a = <<>> \/ b = <<>> THEN FALSE
    ELSE IF a[1] = b[1] THEN CaseLess(Tail(a), Tail(b))
    ELSE IsLowerLetter(a[1])

LocaleLess(a, b) ==
    With(PrimaryCompare(a, b), LAMBDA c : c = -1 \/ (c = 0 /\ CaseLess(a, b)))

\* entries.sort((a, b) => a.name.localeCompare(b.name))
RECURSIVE SortByLocale(_)
SortByLocale(S) ==
    IF S = {} THEN <<>>
    ELSE With(CHOOSE x \in S : \A y \in S \ {x} : LocaleLess(x, y),
              LAMBDA m : <<m>> \o SortByLocale(S \ {m}))

Min(a, b) == IF a < b THEN a ELSE b

\* '#'.repeat(n)
Hashes(n) == [i \in 1..n |-> "#"]

\* the sanitized link path of a document, with its extension ensured
EnsureMd(sanitizedPath, ext) ==
    IF ~EndsWith(ToLower(sanitizedPath), T_md) /\ ~EndsWith(ToLower(sanitizedPath), T_markdown)
    THEN sanitizedPath \o ext
    ELSE sanitizedPath

\* the entries of dirPath that pass the filter of the first loop of
\* buildFolderStructure
OutlineEntries(dirPath) ==
    SelectSeq(readdirSync(dirPath),
              LAMBDA name : /\ ~IsHidden(name)
                            /\ name # T_setFile
                            /\ ~isDeleted(Append(dirPath, name), name))

RECURSIVE buildFolderStructure(_, _, _, _, _, _)
RECURSIVE OutlineDirectories(_, _, _, _, _, _, _)
\* a heading whose level is not capped at 6
OutlineDirectoryUncapped(name, fullPath, vaultRootPath, headingLevel, maxDepth, currentDepth, relativePathPrefix) ==
    Hashes(headingLevel + Len(Relative(vaultRootPath, fullPath)) - 1)
    \o <<" ">> \o name \o <<NL>>
    \o buildFolderStructure(fullPath, vaultRootPath, headingLevel, maxDepth,
                            currentDepth + 1,
                            IF relativePathPrefix # <<>>
                            THEN JoinText(relativePathPrefix, name)
                            ELSE SlashesForward(RelativeText(vaultRootPath, fullPath)))

OutlineDirectory(name, fullPath, vaultRootPath, headingLevel, maxDepth, currentDepth, relativePathPrefix) ==
    Hashes(Min(headingLevel + Len(Relative(vaultRootPath, fullPath)) - 1, 6))
    \o <<" ">> \o name \o <<NL>>
    \o buildFolderStructure(fullPath, vaultRootPath, headingLevel, maxDepth,
                            currentDepth + 1,
                            IF relativePathPrefix # <<>>
                            THEN JoinText(relativePathPrefix, name)
                            ELSE SlashesForward(RelativeText(vaultRootPath, fullPath)))

OutlineDirectories(dirPath, names, vaultRootPath, headingLevel, maxDepth, currentDepth, relativePathPrefix) ==
    IF names = <<>> THEN <<>>
    ELSE (IF IsAttachmentsName(Head(names)) THEN <<>>
          ELSE OutlineDirectory(Head(names), Append(dirPath, Head(names)), vaultRootPath,
                                headingLevel, maxDepth, currentDepth,
                                relativePathPrefix))
         \o OutlineDirectories(dirPath, Tail(names), vaultRootPath, headingLevel,
                               maxDepth, currentDepth, relativePathPrefix)

\* the link list item of a document of dirPath
OutlineLink(displayName, sanitizedPath) ==
    <<"-", " ", "[">> \o displayName \o <<"]", "(">> \o sanitizedPath \o <<")", NL>>

OutlineFileLink(dirPath, name, vaultRootPath, relativePathPrefix) ==
    IF \/ ~IsMarkdownExt(ToLower(ExtName(name)))
       \/ ~existsSync(Append(dirPath, name))
       \/ ~IsFile(Append(dirPath, name))
    THEN <<>>
    ELSE OutlineLink(BasenameNoExt(name, ToLower(ExtName(name))),
                     SlashesForward(EnsureMd(sanitizePathForLink(
                         IF relativePathPrefix # <<>>
                         THEN JoinText(relativePathPrefix, name)
                         ELSE SlashesForward(RelativeText(vaultRootPath,
                                                          Append(dirPath, name)))),
                         ToLower(ExtName(name)))))

\* the loop over files of buildFolderStructure
OutlineFiles(dirPath, files, vaultRootPath, relativePathPrefix) ==
    Concat([i \in 1..Len(files) |->
               OutlineFileLink(dirPath, files[i], vaultRootPath, relativePathPrefix)])

OutlineOf(dirPath, entries, vaultRootPath, headingLevel, maxDepth, currentDepth, relativePathPrefix) ==
    OutlineDirectories(dirPath,
                       SortByLocale({name \in Range(entries) :
                                        IsDirectory(Append(dirPath, name))}),
                       vaultRootPath, headingLevel, maxDepth, currentDepth,
                       relativePathPrefix)
    \o OutlineFiles(dirPath,
                    SortByLocale({name \in Range(entries) :
                                     /\ ~IsDirectory(Append(dirPath, name))
                                     /\ IsFile(Append(dirPath, name))
                                     /\ shouldIncludeFile(Append(dirPath, name))}),
                    vaultRootPath, relativePathPrefix)

buildFolderStructure(dirPath, vaultRootPath, headingLevel, maxDepth, currentDepth, relativePathPrefix) ==
    IF currentDepth >= maxDepth THEN <<>>
    ELSE OutlineOf(dirPath, OutlineEntries(dirPath), vaultRootPath, headingLevel,
                   maxDepth, currentDepth, relativePathPrefix)

\* getFirstMarkdownFile: a relative path text, None when there is no document
RECURSIVE getFirstMarkdownFile(_)
RECURSIVE FirstMarkdownIn(_, _)
FirstMarkdownIn(folderPath, names) ==
    IF names = <<>> THEN None
    ELSE Or(IF IsFile(Append(folderPath, Head(names)))
            THEN IF /\ IsMarkdownExt(ExtName(Head(names)))
                    /\ Head(names) # T_setFile
                    /\ ~isDeleted(Append(folderPath, Head(names)), Head(names))
                 THEN Head(names)
                 ELSE None
            ELSE IF /\ IsDirectory(Append(folderPath, Head(names)))
                    /\ ~isDeleted(Append(folderPath, Head(names)), Head(names))
            THEN With(getFirstMarkdownFile(Append(folderPath, Head(names))),
                      LAMBDA found : IF found # None THEN JoinText(Head(names), found)
                                     ELSE None)
            ELSE None,
            FirstMarkdownIn(folderPath, Tail(names)))

getFirstMarkdownFile(folderPath) == FirstMarkdownIn(folderPath, readdirSync(folderPath))

T_vault == <<"v", "a", "u", "l", "t">>
T_vaultSetName ==
    <<"v", "a", "u", "l", "t", ".", "s", "e", "t", ".", "m", "d">>
T_vaultSetHead ==
    <<"-", "-", "-", NL, "t", "y", "p", "e", ":", " ", DQ, "S", "e", "t", DQ, NL, "n",
      "a", "m", "e", ":", " ", DQ, "v", "a", "u", "l", "t", DQ, NL, "-", "-", "-", NL,
      NL, "#", " ", "v", "a", "u", "l", "t", NL, NL>>
T_noRootFolders ==
    <<"-", "-", "-", NL, "t", "y", "p", "e", ":", " ", "S", "e", "t", NL, "n", "a",
      "m", "e", ":", " ", "v", "a", "u", "l", "t", NL, "-", "-", "-", NL, NL, "#", " ",
      "v", "a", "u", "l", "t", NL, NL, "*", "N", "o", " ", "r", "o", "o", "t", " ",
      "f", "o", "l", "d", "e", "r", "s", " ", "f", "o", "u", "n", "d", ".", "*", NL>>

\* firstFile.replace(/\.md$/i, '')
StripMd(text) ==
    IF EndsWith(ToLower(text), T_md) THEN Sub(text, 1, Len(text) - 3) ELSE text

\* the item "## name\n\n- [label](filePath)\n\n" of the vault set
IndexItem(name, label, filePath) ==
    <<"#", "#", " ">> \o name \o <<NL, NL, "-", " ", "[">> \o label \o <<"]", "(">>
    \o filePath \o <<")", NL, NL>>

\* one pass of the loop over rootFolders of createVaultSetFile: the text added to
\* the vault set and the folders needing an empty file
\* the link path of a file of a root folder, as createVaultSetFile computes it
IndexPath(fullPath, ext) ==
    SlashesForward(EnsureMd(sanitizePathForLink(
        SlashesForward(RelativeText(VaultPath, fullPath))), ext))

\* the item and the entry of foldersNeedingEmptyFiles for a folder without documents
EmptyFolderPart(folder, emptyFileName, emptyPath) ==
    [text |-> IndexItem(folder.name, folder.name, emptyPath),
     empty |-> <<[name |-> folder.name, path |-> folder.path,
                  emptyFilePath |-> emptyPath, emptyFileName |-> emptyFileName]>>]

\* the branch of createVaultSetFile for a root folder with an empty outline
FirstFilePart(folder, firstFile) ==
    IF firstFile = None
    THEN EmptyFolderPart(folder, folder.name \o T_md,
                         IndexPath(Append(folder.path, folder.name \o T_md), T_md))
    ELSE [text |-> IndexItem(folder.name, StripMd(firstFile),
                             IndexPath(PathJoin(folder.path, firstFile),
                                       ExtName(BasenameText(firstFile)))),
          empty |-> <<>>]

\* one pass of the loop over rootFolders of createVaultSetFile: the text added to
\* the vault set and the folders needing an empty file
VaultSetPart(folder) ==
    IF folder.name = <<>> THEN [text |-> <<>>, empty |-> <<>>]
    ELSE With(buildFolderStructure(folder.path, VaultPath, 2, 10, 0,
                                   SlashesForward(RelativeText(VaultPath, folder.path))),
              LAMBDA folderStructure :
                  IF folderStructure # <<>>
                  THEN [text |-> folderStructure, empty |-> <<>>]
                  ELSE FirstFilePart(folder, getFirstMarkdownFile(folder.path)))

\* createVaultSetFile(rootFolders): the content of vault.set.md and
\* createVaultSetFile.foldersNeedingEmptyFiles (which is not assigned when
\* rootFolders is empty)
createVaultSetFile(folders, oldNeedEmpty) ==
    IF folders = <<>>
    THEN [content |-> T_noRootFolders, needEmpty |-> oldNeedEmpty]
    ELSE With([i \in 1..Len(folders) |-> VaultSetPart(folders[i])], LAMBDA parts :
             [content |-> T_vaultSetHead
                          \o Concat([i \in 1..Len(parts) |-> parts[i].text]),
              needEmpty |-> Concat([i \in 1..Len(parts) |-> parts[i].empty])])

T_placeholderHead ==
    <<"-", "-", "-", NL, "t", "y", "p", "e", ":", " ", "S", "e", "t", "L", "e", "a",
      "f", NL, "s", "e", "t", ":", " ", "v", "a", "u", "l", "t", NL, "-", "-", "-", NL,
      NL, "#", " ">>
T_placeholderMid ==
    <<NL, NL, "T", "h", "i", "s", " ", "i", "s", " ", "t", "h", "e", " ", "r", "o",
      "o", "t", " ", "f", "o", "l", "d", "e", "r", ":", " ", "*", "*">>

\* emptyFileContent of convertToAnytype
EmptyFileContent(name) ==
    T_placeholderHead \o name \o T_placeholderMid \o name \o <<"*", "*", NL>>

-----------------------------------------------------------------------------
(* The vaults of the model *)

\* the largest number of files and folders in the vault
MaxNodes == 4

D_alias ==
    <<"[", "[", "D", " ", "P", "|", "P", "l", "a", "n", "]", "]">>
D_pathLink ==
    <<"[", "[", "A", "/", "D", " ", "P", "]", "]">>
D_embed ==
    <<"!", "[", "[", "c", ".", "p", "n", "g", "]", "]">>
D_rootLink ==
    <<"[", "[", "N", "]", "]">>
D_hiddenLink ==
    <<"[", "[", "h", "]", "]">>
D_trashLink ==
    <<"[", "[", "t", "]", "]">>
D_missingLink ==
    <<"[", "[", "z", "z", "]", "]">>
D_header ==
    <<"-", "-", "-", NL, "k", ":", " ", "v", NL, "-", "-", "-", NL, "h", "i">>
D_setHeader ==
    <<"-", "-", "-", NL, "s", "e", "t", ":", " ", "Z", NL, "-", "-", "-", NL, "h", "i">>
D_tag ==
    <<"#", "t", " ", "h", "i">>
D_image ==
    <<"!", "[", "a", "]", "(", "c", ".", "p", "n", "g", ")">>

D_linkMd ==
    <<"[", "a", "]", "(", "c", ".", "p", "n", "g", ".", "m", "d", ")">>
D_imageMd ==
    <<"!", "[", "a", "]", "(", "c", ".", "p", "n", "g", ".", "m", "d", ")">>

\* the contents of the documents with variable content
DocTexts == {T_hi, D_alias, D_pathLink, D_embed, D_rootLink, D_hiddenLink, D_trashLink,
             D_missingLink, D_header, D_setHeader, D_tag, D_image, D_linkMd, D_imageMd}

Nodes == 1..Len(Universe)

\* a node exists only inside an existing folder
ParentsPresent(S) ==
    \A i \in S : Len(Universe[i].path) > 1 =>
        \E j \in S : /\ Universe[j].kind = "dir"
                     /\ Universe[j].path = Dirname(Universe[i].path)

HasVarDoc(S) == \E n \in S : n.var

\* some folder (or the vault) of S lists more than one entry
HasSiblings(S) ==
    \E n, m \in S : n # m /\ Dirname(n.path) = Dirname(m.path)

\* the files of S that lie inside a folder: the files a conversion may read
ReadFiles(S) == {n \in S : n.kind = "file" /\ Len(n.path) > 1}

\* the sets of at most k nodes in which every node lies inside a folder of the
\* set: each is such a set of at most k - 1 nodes, or one of them with one more
\* node
RECURSIVE VaultsUpTo(_)
VaultsUpTo(k) ==
    IF k = 0 THEN {{}}
    ELSE With(VaultsUpTo(k - 1), LAMBDA V :
             V \cup {p[1] \cup {p[2]} :
                        p \in {q \in V \X Nodes : ParentsPresent(q[1] \cup {q[2]})}})

Vaults == VaultsUpTo(MaxNodes)

\* the file system and the fields of a fresh process; the content of the
\* variable documents and the listing order are fixed where nothing reads them
Init ==
    /\ vaultKind \in {"dir", "file", "missing"}
    /\ present \in {{NodeOf(i) : i \in S} : S \in Vaults}
    /\ vaultKind # "dir" => present = {}
    /\ docText \in DocTexts
    /\ ~HasVarDoc(present) => docText = T_hi
    /\ rev \in BOOLEAN
    /\ ~HasSiblings(present) => rev = FALSE
    /\ broken \in {None} \cup {VaultPath \o n.path : n \in ReadFiles(present)}
    /\ pc = "start"
    /\ rootFolders = <<>>
    /\ needEmpty = <<>>
    /\ zip = <<>>
    /\ sets = <<>>
    /\ exitCode = -1
    /\ folderIdx = 0
    /\ fnIn = <<>>
    /\ fnOut = <<>>
    /\ fnPc = "off"

-----------------------------------------------------------------------------
(* convertToAnytype *)

\* CheckVault without the second check: a vault path that exists but is not a
\* directory is taken for a vault
CheckVaultExistsOnly ==
    /\ pc = "start"
    /\ IF vaultKind # "missing"
       THEN pc' = "scan" /\ UNCHANGED exitCode
       ELSE pc' = "exited" /\ exitCode' = 1
    /\ UNCHANGED <<vaultKind, present, docText, rev, broken, rootFolders, needEmpty, zip,
                   sets, folderIdx, fnIn, fnOut, fnPc>>

\* the existence and directory checks on vaultPath
CheckVault ==
    /\ pc = "start"
    /\ IF vaultKind = "dir"
       THEN pc' = "scan" /\ UNCHANGED exitCode
       ELSE pc' = "exited" /\ exitCode' = 1
    /\ UNCHANGED <<vaultKind, present, docText, rev, broken, rootFolders, needEmpty, zip, sets,
                   folderIdx, fnIn, fnOut, fnPc>>

\* the root-level folders that become rootFolders
IsRootFolderName(name) ==
    /\ IsDirectory(Append(VaultPath, name))
    /\ ~IsHidden(name)
    /\ ~isDeleted(Append(VaultPath, name), name)
    /\ ToLower(name) # N_attachments
    /\ ToLower(name) # N_attachment

ScanRootFolders ==
    With(SelectSeq(readdirSync(VaultPath), IsRootFolderName), LAMBDA names :
        [i \in 1..Len(names) |->
            [name |-> names[i], path |-> Append(VaultPath, names[i])]])

\* the loop that finds the root folders; the run ends without an archive when
\* there is none
FindRootFolders ==
    /\ pc = "scan"
    /\ rootFolders' = ScanRootFolders
    /\ IF rootFolders' = <<>>
       THEN pc' = "done" /\ exitCode' = 0
       ELSE pc' = "index" /\ UNCHANGED exitCode
    /\ UNCHANGED <<vaultKind, present, docText, rev, broken, needEmpty, zip, sets, folderIdx,
                   fnIn, fnOut, fnPc>>

\* zip.append(createVaultSetFile(rootFolders), { name: 'vault.set.md' })
CreateVaultSet ==
    /\ pc = "index"
    /\ \E made \in {createVaultSetFile(rootFolders, needEmpty)} :
          /\ zip' = Append(zip, Entry("index", T_vaultSetName, <<>>, made.content,
                                      <<>>, <<>>))
          /\ needEmpty' = made.needEmpty
    /\ pc' = "placeholders"
    /\ UNCHANGED <<vaultKind, present, docText, rev, broken, rootFolders, sets, exitCode,
                   folderIdx, fnIn, fnOut, fnPc>>

\* the loop over createVaultSetFile.foldersNeedingEmptyFiles
AppendPlaceholders ==
    /\ pc = "placeholders"
    /\ zip' = zip \o [i \in 1..Len(needEmpty) |->
                        Entry("placeholder", needEmpty[i].emptyFilePath, <<>>,
                              EmptyFileContent(needEmpty[i].name), <<>>, <<>>)]
    /\ pc' = "folders"
    /\ folderIdx' = 1
    /\ UNCHANGED <<vaultKind, present, docText, rev, broken, rootFolders, needEmpty, sets,
                   exitCode, fnIn, fnOut, fnPc>>

\* one pass of the loop over rootFolders
ProcessRootFolder ==
    /\ pc = "folders"
    /\ folderIdx <= Len(rootFolders)
    /\ \E done \in {processDirectory(sets, rootFolders[folderIdx].path,
                                     sanitizePathForLink(rootFolders[folderIdx].name),
                                     VaultPath)} :
          /\ zip' = zip \o done.entries
          /\ sets' = done.cache
    /\ folderIdx' = folderIdx + 1
    /\ pc' = IF folderIdx = Len(rootFolders) THEN "attachments" ELSE "folders"
    /\ UNCHANGED <<vaultKind, present, docText, rev, broken, rootFolders, needEmpty, exitCode,
                   fnIn, fnOut, fnPc>>

\* the root-level attachment folders that are processed after the root folders
IsRootAttachmentsName(name) ==
    /\ IsDirectory(Append(VaultPath, name))
    /\ IsAttachmentsName(name)
    /\ ~isDeleted(Append(VaultPath, name), name)

RECURSIVE ProcessAttachments(_, _)
ProcessAttachments(cache, names) ==
    IF names = <<>> THEN [entries |-> <<>>, cache |-> cache]
    ELSE With(processDirectory(cache, Append(VaultPath, Head(names)),
                               sanitizePathForLink(Head(names)), VaultPath),
              LAMBDA first :
         With(ProcessAttachments(first.cache, Tail(names)), LAMBDA rest :
             [entries |-> first.entries \o rest.entries, cache |-> rest.cache]))

\* the loop over the root-level attachment folders
ProcessAttachmentFolders ==
    /\ pc = "attachments"
    /\ \E done \in {ProcessAttachments(sets, SelectSeq(readdirSync(VaultPath),
                                                       IsRootAttachmentsName))} :
          /\ zip' = zip \o done.entries
          /\ sets' = done.cache
    /\ pc' = "finalize"
    /\ UNCHANGED <<vaultKind, present, docText, rev, broken, rootFolders, needEmpty, exitCode,
                   folderIdx, fnIn, fnOut, fnPc>>

\* zip.finalize()
Finalize ==
    /\ pc = "finalize"
    /\ pc' = "done"
    /\ exitCode' = 0
    /\ UNCHANGED <<vaultKind, present, docText, rev, broken, rootFolders, needEmpty, zip, sets,
                   folderIdx, fnIn, fnOut, fnPc>>

Next ==
    \/ CheckVault
    \/ FindRootFolders
    \/ CreateVaultSet
    \/ AppendPlaceholders
    \/ ProcessRootFolder
    \/ ProcessAttachmentFolders
    \/ Finalize

Spec == Init /\ [][Next]_vars

-----------------------------------------------------------------------------
(* What the archive of a run holds *)

\* the rewritten documents of the archive
Pages == {e \in Range(zip) : e.kind = "page"}

\* the names of the entries of the archive
EntryNames == {e.name : e \in Range(zip)}

\* the references a rewritten document resolved or failed to resolve
LinksOf(e) == Range(e.wikiLinks) \cup Range(e.imageLinks)

\* a path lies below a folder
Beneath(folderPath, abs) ==
    Len(abs) > Len(folderPath) /\ Sub(abs, 1, Len(folderPath)) = folderPath

\* the markdown documents of the vault that no filter of the conversion excludes:
\* no segment of the path is hidden or marked deleted and the file is included
NonExcludedDocs ==
    {n \in present :
        /\ n.kind = "file"
        /\ IsMarkdownExt(ExtName(Basename(n.path)))
        /\ shouldIncludeFile(VaultPath \o n.path)
        /\ \A k \in 1..Len(n.path) :
              /\ ~IsHidden(n.path[k])
              /\ ~isDeleted(VaultPath \o Sub(n.path, 1, k), n.path[k])}

\* the header block of a rewritten document, read back as key-value pairs
HeaderOf(content) ==
    ParseLines(SplitOn(FrontmatterMatch(content).group, NL), <<>>)

\* C1: every link or image target written for a reference that was resolved to an
\* existing vault file is the name of an entry appended to the archive in the run
C1_TargetsAreEntries ==
    pc = "done" =>
        \A e \in Pages : \A l \in LinksOf(e) :
            l.found # None => l.target \in EntryNames

\* C2: when the conversion of a valid vault has finished, every non-excluded
\* markdown document, at any depth and directly under the vault root as well, has
\* exactly one archive entry named by its sanitized path relative to the vault root
C2_EveryDocumentHasOneEntry ==
    (pc = "done" /\ vaultKind = "dir") =>
        \A n \in NonExcludedDocs :
            Cardinality({i \in 1..Len(zip) :
                zip[i].name = sanitizePathForLink(PathText(n.path))}) = 1

\* C4: every document emitted from inside a folder, at any depth, has type SetLeaf
\* and a set field equal to the name of the top-level folder that contains it
C4_SetIsTopLevelFolder ==
    \A e \in Pages :
        Len(e.src) > Len(VaultPath) + 1 =>
            /\ FrontmatterMatch(e.content).ok
            /\ HasKey(HeaderOf(e.content), T_type)
            /\ GetKey(HeaderOf(e.content), T_type) = Str(T_SetLeaf)
            /\ HasKey(HeaderOf(e.content), T_set)
            /\ GetKey(HeaderOf(e.content), T_set) = Str(e.src[Len(VaultPath) + 1])

\* C7: a note reference whose file exists in the directory of the document or at
\* the path relative to the export root is resolved to a found file, and so is an
\* asset reference
C7_ExistingIsFound ==
    \A e \in Pages : \A l \in LinksOf(e) :
        (\/ IsFile(PathJoin(Dirname(e.src), l.ref \o (IF l.kind = "wiki" THEN T_md ELSE <<>>)))
         \/ IsFile(PathJoin(VaultPath, l.ref \o (IF l.kind = "wiki" THEN T_md ELSE <<>>))))
        => l.found # None

\* C8: a note reference [[Name|Alias]] that resolves to a file is written as
\* [Alias](T), T the sanitized path from the export root to the found file
C8_AliasLinkIsSanitized ==
    \A e \in Pages : \A l \in Range(e.wikiLinks) :
        (l.found # None /\ l.alt # l.ref) =>
            Find(e.content, 1,
                 <<"[">> \o l.alt \o <<"]", "(">>
                 \o sanitizePathForLink(RelativeText(VaultPath, l.found))
                 \o <<")">>) # 0

\* the asset embeds ![[name.ext]] of a source text: the names
EmbedsOf(s) ==
    {Sub(s, m + 3, m + 2 + EmbedMatchAt(s, m)) :
        m \in {p \in 1..Len(s) : EmbedMatchAt(s, p) # 0}}

\* C9: an asset embed ![[name.ext]] of a processed document that resolves to a
\* file is written as ![name without extension](sanitized path from the export
\* root to the found file)
C9_EmbedIsImageLink ==
    \A e \in Pages : \A name \in EmbedsOf(readFileSync(e.src)) :
        existsSync(EmbedSearch(name, Dirname(e.src))) =>
            Find(e.content, 1,
                 <<"!", "[">>
                 \o BasenameNoExt(BasenameText(name), ExtName(BasenameText(name)))
                 \o <<"]", "(">>
                 \o sanitizePathForLink(RelativeText(VaultPath,
                        EmbedSearch(name, Dirname(e.src))))
                 \o <<")">>) # 0

\* a markdown document exists somewhere beneath a folder
HasDocumentBeneath(folderPath) ==
    \E n \in present :
        /\ n.kind = "file"
        /\ IsMarkdownExt(ExtName(Basename(n.path)))
        /\ Beneath(folderPath, VaultPath \o n.path)

\* C10: every root container with no document anywhere beneath it, one that
\* holds only empty subfolders included, has a placeholder document that is
\* appended to the archive and linked from the top-level index
C10_EmptyContainerHasPlaceholder ==
    (pc = "done" /\ rootFolders # <<>>) =>
        \A i \in 1..Len(rootFolders) :
            ~HasDocumentBeneath(rootFolders[i].path) =>
                \E e \in Range(zip) :
                    /\ e.kind = "placeholder"
                    /\ StartsWith(e.name, sanitizePathForLink(rootFolders[i].name) \o <<"/">>)
                    /\ Find(zip[1].content, 1, <<"(">> \o e.name \o <<")">>) # 0

-----------------------------------------------------------------------------
(* extractTags on its own *)

\* the largest number of pieces in a text given to extractTags
MaxTagTokens == 4

\* the pieces the texts are made of: a tag, a backtick, a fence, a space, a
\* newline and a word
TagTokens == {<<"#", "a">>, <<BT>>, Fence, <<" ">>, <<NL>>, <<"b">>}

TagInputs ==
    {Concat(q) : q \in UNION {[1..n -> TagTokens] : n \in 0..MaxTagTokens}}

\* no conversion is running: the fields of the process are those of a fresh one
\* whose vault is missing
NoRun ==
    /\ vaultKind = "missing"
    /\ present = {}
    /\ docText = T_hi
    /\ rev = FALSE
    /\ broken = None
    /\ pc = "off"
    /\ rootFolders = <<>>
    /\ needEmpty = <<>>
    /\ zip = <<>>
    /\ sets = <<>>
    /\ exitCode = -1
    /\ folderIdx = 0

runVars ==
    <<vaultKind, present, docText, rev, broken, pc, rootFolders, needEmpty, zip, sets,
      exitCode, folderIdx>>

InitTags ==
    /\ NoRun
    /\ fnIn \in TagInputs
    /\ fnOut = <<>>
    /\ fnPc = "tags"

\* const tags = extractTags(content)
ExtractTags ==
    /\ fnPc = "tags"
    /\ fnOut' = extractTags(fnIn)
    /\ fnPc' = "tagsDone"
    /\ UNCHANGED <<fnIn, runVars>>

NextTags == ExtractTags

SpecTags == InitTags /\ [][NextTags]_vars

\* C6: every tag in the result of extractTags is a tag-shaped token of the text
\* outside its fenced code blocks and inline code spans, also when the whole text
\* is a single code span or code block
C6_NoTagFromCode ==
    fnPc = "tagsDone" =>
        \A i \in 1..Len(fnOut) :
            fnOut[i] \in TagScan(Concat(NonCodeParts(fnIn, 1, 1)), 1)

-----------------------------------------------------------------------------
(* addPageMetadata on its own, applied once and again to its result *)

\* the largest number of lines in the header block of a text given to
\* addPageMetadata
MaxHeaderLines == 2

MetaLines ==
    {<<"k", ":", " ", "v">>,
     <<"s", "e", "t", ":", " ", "Z">>,
     <<"t", "a", "g", "s", ":", " ", "a", ",", " ", "b">>,
     <<"t", "y", "p", "e", ":", " ", "X">>,
     <<"t", "a", "g", "s", ":">>,
     <<" ", " ", "a", ":", " ", DQ, "a", DQ>>,
     <<" ", " ", "-", " ", "a">>,
     <<"t", "a", "g", "s", ":", " ", "[", "a", ",", " ", "b", "]">>,
     <<"c", ":", " ", "$", "1">>}

\* a header block of the given lines; no lines, no header block
HeaderBlock(lines) ==
    IF lines = <<>> THEN <<>>
    ELSE Dashes \o <<NL>> \o JoinWith(lines, <<NL>>) \o <<NL>> \o Dashes \o <<NL>>

MetaHeaders ==
    {HeaderBlock(q) : q \in UNION {[1..n -> MetaLines] : n \in 0..MaxHeaderLines}}

MetaBodies == {<<>>, T_hi, D_tag, <<NL>> \o T_hi}

\* null, a set info without a root set, and the set infos of two root folders
MetaSetInfos ==
    {NoSetInfo, [nil |-> FALSE, rootSet |-> None], [nil |-> FALSE, rootSet |-> N_A],
     [nil |-> FALSE, rootSet |-> N_R]}

InitMeta ==
    /\ NoRun
    /\ fnIn \in {[content |-> h \o b, setInfo |-> s] :
                    h \in MetaHeaders, b \in MetaBodies, s \in MetaSetInfos}
    /\ fnOut = <<>>
    /\ fnPc = "meta"

\* addPageMetadata(content, setInfo)
ApplyOnce ==
    /\ fnPc = "meta"
    /\ fnOut' = <<addPageMetadata(fnIn.content, fnIn.setInfo)>>
    /\ fnPc' = "once"
    /\ UNCHANGED <<fnIn, runVars>>

\* addPageMetadata(result, setInfo), result the text of the first call
ApplyAgain ==
    /\ fnPc = "once"
    /\ fnOut' = Append(fnOut, addPageMetadata(fnOut[1], fnIn.setInfo))
    /\ fnPc' = "twice"
    /\ UNCHANGED <<fnIn, runVars>>

NextMeta == ApplyOnce \/ ApplyAgain

SpecMeta == InitMeta /\ [][NextMeta]_vars

\* C3: addPageMetadata applied to its own result, with the same set info, gives
\* that result again, character for character
C3_MergeIsIdempotent ==
    fnPc = "twice" => fnOut[2] = fnOut[1]

\* the keys of the lines of the header block of a text that are not indented
TopLevelKeys(content) ==
    {Trim(Sub(line, 1, IndexOf(line, ":") - 1)) :
        line \in {l \in Range(SplitOn(FrontmatterMatch(content).group, NL)) :
                     IndexOf(l, ":") > 1 /\ ~IsSpace(l[1])}}

\* the lines of the header block of a text
HeaderLines(content) == Range(SplitOn(FrontmatterMatch(content).group, NL))

\* C5: for a document with no owning container the emitted header declares type
\* Page and has no set field, also when the header block of the input has a set
\* key; a header synthesized for an input without header block has only the
\* computed fields
C5_RootDocumentIsPage ==
    (fnPc = "once" /\ fnIn.setInfo.nil) =>
        /\ FrontmatterMatch(fnOut[1]).ok
        /\ (T_type \o <<":", " ", DQ>> \o T_Page \o <<DQ>>) \in HeaderLines(fnOut[1])
        /\ T_set \notin TopLevelKeys(fnOut[1])
        /\ ~FrontmatterMatch(fnIn.content).ok =>
              TopLevelKeys(fnOut[1]) \subseteq {T_type, T_tags}

-----------------------------------------------------------------------------
(* The top-level index *)

\* the text occurs in the content as whole lines: it starts at the start of a line
OccursAtLineStart(content, text) ==
    \E p \in 1..Len(content) :
        /\ p = 1 \/ content[p - 1] = NL
        /\ MatchAt(content, p, text)

\* the recursive outline of a root folder, as the index builder computes it
RootOutline(folder) ==
    buildFolderStructure(folder.path, VaultPath, 2, 10, 0,
                         SlashesForward(RelativeText(VaultPath, folder.path)))

\* C11: vault.set.md has, for every root container, with documents or without, a
\* second-level heading with the name of the container, followed by the
\* recursive outline of the container
C11_IndexHasHeadingPerContainer ==
    (zip # <<>>) =>
        \A i \in 1..Len(rootFolders) :
            OccursAtLineStart(zip[1].content,
                              <<"#", "#", " ">> \o rootFolders[i].name \o <<NL>>
                              \o RootOutline(rootFolders[i]))

-----------------------------------------------------------------------------
(* The tags field of a header block, read as YAML *)

\* the lines of the header block of a text, in order
HeaderLineSeq(content) == SplitOn(FrontmatterMatch(content).group, NL)

\* the position of the first line "tags:..." of the lines, one past the end if none
TagsLineAt(lines) ==
    MinOf({i \in 1..Len(lines) : StartsWith(lines[i], T_tags \o <<":">>)}
          \cup {Len(lines) + 1})

HasTagsField(content) ==
    FrontmatterMatch(content).ok
    /\ TagsLineAt(HeaderLineSeq(content)) <= Len(HeaderLineSeq(content))

\* the indented lines that follow line i
IndentedAfter(lines, i) ==
    Sub(lines, i + 1,
        i + MaxOf({k \in 0..(Len(lines) - i) :
                      \A j \in 1..k : At(lines[i + j], 1) = " "}))

\* the tag of an item of a block list ("- a") or of a nested mapping ("a: a")
ItemValue(line) ==
    IF StartsWith(Trim(line), <<"-">>) THEN Trim(From(Trim(line), 2))
    ELSE IF IndexOf(Trim(line), ":") > 0
    THEN Unquote(Trim(From(Trim(line), IndexOf(Trim(line), ":") + 1)))
    ELSE Trim(line)

\* the tags of a flow list "[a, b]" or of a comma-separated scalar "a, b"
ScalarValues(v) ==
    {Trim(x) : x \in Range(SplitOn(IF StartsWith(v, <<"[">>) /\ EndsWith(v, <<"]">>)
                                   THEN Sub(v, 2, Len(v) - 1) ELSE v, ","))} \ {<<>>}

\* the tag values that the tags field of the header block of a text declares
DeclaredTags(content) ==
    IF Trim(From(HeaderLineSeq(content)[TagsLineAt(HeaderLineSeq(content))], 6)) = <<>>
    THEN {ItemValue(l) : l \in Range(IndentedAfter(HeaderLineSeq(content),
                                                   TagsLineAt(HeaderLineSeq(content))))}
    ELSE ScalarValues(Unquote(Trim(From(
             HeaderLineSeq(content)[TagsLineAt(HeaderLineSeq(content))], 6))))

\* the nested mapping with one key per tag, the value equal to the key
TagMappingLines(tagList) ==
    [i \in 1..Len(tagList) |-> TagEntryLine([k |-> tagList[i], v |-> tagList[i]])]

\* C12: when the header of a document has a tags field (a list, a nested mapping
\* or a comma-separated scalar), the tags of the output are the union of the
\* declared tags and the tags extracted from the body, without duplicates, sorted,
\* written as a nested mapping with one key per tag whose value is the key
C12_TagsAreMerged ==
    (fnPc = "once" /\ HasTagsField(fnIn.content) /\ DeclaredTags(fnIn.content) # {}) =>
        /\ HasTagsField(fnOut[1])
        /\ HeaderLineSeq(fnOut[1])[TagsLineAt(HeaderLineSeq(fnOut[1]))] = T_tags \o <<":">>
        /\ IndentedAfter(HeaderLineSeq(fnOut[1]), TagsLineAt(HeaderLineSeq(fnOut[1])))
           = TagMappingLines(SortTexts(DeclaredTags(fnIn.content)
                                       \cup Range(extractTags(fnIn.content))))

-----------------------------------------------------------------------------
(* The keys of a header block *)

\* the lines of the header block of a text that are not indented and have a key
TopLevelLines(content) ==
    {l \in Range(HeaderLineSeq(content)) : IndexOf(l, ":") > 1 /\ ~IsSpace(l[1])}

\* the keys of the header block with their values, quotes aside
TopLevelPairs(content) ==
    {[k |-> Trim(Sub(l, 1, IndexOf(l, ":") - 1)),
      v |-> Unquote(Trim(From(l, IndexOf(l, ":") + 1)))] : l \in TopLevelLines(content)}

\* the pairs of the keys that the merge does not compute
UserPairs(content) ==
    {e \in TopLevelPairs(content) : e.k \notin {T_type, T_set, T_tags}}

\* C13: for a document with a header block, every key of the header other than
\* type, set and tags is in the header of the output with its original value, and
\* the output has no key other than type, set and tags that the input did not have
C13_UserKeysAreKept ==
    (fnPc = "once" /\ FrontmatterMatch(fnIn.content).ok) =>
        /\ FrontmatterMatch(fnOut[1]).ok
        /\ UserPairs(fnOut[1]) = UserPairs(fnIn.content)

-----------------------------------------------------------------------------
(* References that are not resolved *)

\* a link target that sanitizePathForLink leaves as it is
IsSanitized(target) == sanitizePathForLink(target) = target

\* C14: a reference that is not resolved, to a note or to an asset, is still
\* written as a link, and the target of that link is sanitized
C14_UnresolvedTargetIsSanitized ==
    \A e \in Pages : \A l \in LinksOf(e) :
        l.found = None =>
            /\ IsSanitized(l.target)
            /\ Find(e.content, 1, <<"]", "(">> \o l.target \o <<")">>) # 0

-----------------------------------------------------------------------------
(* I/O errors *)

\* the files that a run without I/O error appends from the folders it walks: the
\* files inside a folder of which no path segment is hidden or marked deleted, and
\* that pass shouldIncludeFile
WalkedFiles ==
    {n \in present :
        /\ n.kind = "file"
        /\ Len(n.path) > 1
        /\ n.path[Len(n.path)] # T_setFile
        /\ shouldIncludeFile(VaultPath \o n.path)
        /\ \A k \in 1..Len(n.path) :
              /\ ~IsHidden(n.path[k])
              /\ ~isDeleted(VaultPath \o Sub(n.path, 1, k), n.path[k])}

\* the sources of the entries of the archive
EntrySources == {e.src : e \in Range(zip)}

\* C15: an I/O error on reading one file skips only that file: every other file
\* of the same directory and of its subdirectories is still appended to the
\* archive, and the run completes
C15_ReadErrorSkipsOneEntry ==
    (pc = "done" /\ rootFolders # <<>>) =>
        \A n \in WalkedFiles :
            (VaultPath \o n.path) # broken => (VaultPath \o n.path) \in EntrySources

\* without I/O error every walked file is in the archive
AllWalkedWithoutError ==
    (pc = "done" /\ rootFolders # <<>> /\ broken = None) =>
        \A n \in WalkedFiles : (VaultPath \o n.path) \in EntrySources

-----------------------------------------------------------------------------
(* Aborted runs *)

CompletedDespiteReadError ==
    broken = VaultPath \o <<N_A, N_x>> /\ pc = "done" /\ exitCode = 0 /\ Len(zip) > 1

-----------------------------------------------------------------------------
(* Path-suffix repair *)

\* the targets of the conventional links and images "[..](target)" of a text
TargetsOf(s) ==
    {Sub(s, p + 2, p + 1 + RunLen(s, p + 2, NotCloseParen)) :
        p \in {q \in 1..Len(s) :
                  /\ MatchAt(s, q, <<"]", "(">>)
                  /\ RunLen(s, q + 2, NotCloseParen) >= 1
                  /\ At(s, q + 2 + RunLen(s, q + 2, NotCloseParen)) = ")"}}

\* a target with a spurious ".md": without it the target ends in a recognized
\* attachment extension
HasSpuriousMd(target) == CleanImagePath(target) # target

\* C17: a conventional link or image target that ends in .md and that without
\* this suffix ends in a recognized attachment extension is repaired: the output
\* has a target that refers to the attachment and no longer has the target with
\* the suffix; other targets ending in .md are not repaired
C17_SpuriousMdIsRemoved ==
    \A e \in Pages : \A t \in TargetsOf(readFileSync(e.src)) :
        HasSpuriousMd(t) =>
            /\ t \notin TargetsOf(e.content)
            /\ \E u \in TargetsOf(e.content) :
                  EndsWith(u, sanitizePathForLink(BasenameText(CleanImagePath(t))))

-----------------------------------------------------------------------------
(* Traversal order *)

\* the positions of the archive that hold a file of the vault
FilePositions == {i \in 1..Len(zip) : zip[i].src # <<>>}

\* a sorts before b by name, in the order of localeCompare or of the code units
NameSortedBefore(a, b) == LocaleLess(a, b) \/ TextLess(a, b)

\* C18: the traversal order is deterministic: the files of one directory are
\* appended in the order of their names, and the files of a directory before any
\* entry of its subdirectories, whatever the order in which the file system
\* lists them
C18_EntriesAreNameSorted ==
    \A i, j \in FilePositions :
        i < j =>
            /\ Dirname(zip[i].src) = Dirname(zip[j].src) =>
                  NameSortedBefore(Basename(zip[i].src), Basename(zip[j].src))
            /\ ~Beneath(Dirname(zip[j].src), Dirname(zip[i].src))

\* the files of a directory come before the entries of its subdirectories
FilesBeforeSubdirectories ==
    \A i, j \in FilePositions :
        i < j => ~Beneath(Dirname(zip[j].src), Dirname(zip[i].src))

-----------------------------------------------------------------------------
(* sanitizePathForLink on its own, applied once and again to its result *)

\* the largest number of characters of a path given to sanitizePathForLink
MaxPathLen == 4

PathChars == {"a", " ", TAB, "/", BSL}

PathInputs == UNION {[1..n -> PathChars] : n \in 0..MaxPathLen}

InitPath ==
    /\ NoRun
    /\ fnIn \in PathInputs
    /\ fnOut = <<>>
    /\ fnPc = "path"

\* sanitizePathForLink(filePath)
SanitizeOnce ==
    /\ fnPc = "path"
    /\ fnOut' = <<sanitizePathForLink(fnIn)>>
    /\ fnPc' = "pathOnce"
    /\ UNCHANGED <<fnIn, runVars>>

\* sanitizePathForLink(result), result the path of the first call
SanitizeAgain ==
    /\ fnPc = "pathOnce"
    /\ fnOut' = Append(fnOut, sanitizePathForLink(fnOut[1]))
    /\ fnPc' = "pathTwice"
    /\ UNCHANGED <<fnIn, runVars>>

NextPath == SanitizeOnce \/ SanitizeAgain

SpecPath == InitPath /\ [][NextPath]_vars

\* the positions of a segment that survive: the characters that are no
\* whitespace and the first character of every whitespace run
KeptPositions(s) ==
    SelectSeq([p \in 1..Len(s) |-> p],
              LAMBDA p : ~IsSpace(s[p]) \/ p = 1 \/ ~IsSpace(s[p - 1]))

\* the segment with every whitespace run replaced by one underscore
Collapsed(s) ==
    [k \in 1..Len(KeptPositions(s)) |->
        IF IsSpace(s[KeptPositions(s)[k]]) THEN "_" ELSE s[KeptPositions(s)[k]]]

\* the segments of a path, separated by "/" or by a backslash
RECURSIVE SegmentsOf(_)
SegmentsOf(s) ==
    IF \A p \in 1..Len(s) : s[p] \notin {"/", BSL} THEN <<s>>
    ELSE With(MinOf({p \in 1..Len(s) : s[p] \in {"/", BSL}}), LAMBDA k :
             <<Sub(s, 1, k - 1)>> \o SegmentsOf(From(s, k + 1)))

\* C19: sanitizePathForLink replaces every whitespace run of each segment by one
\* underscore, segment by segment: the result has the segments of the path in
\* the same number and order, separated by "/" only (a backslash becomes "/"),
\* has no whitespace, and sanitizing it again changes nothing
C19_SanitizeIsPerSegment ==
    fnPc \in {"pathOnce", "pathTwice"} =>
        /\ Len(SegmentsOf(fnOut[1])) = Len(SegmentsOf(fnIn))
        /\ \A i \in 1..Len(SegmentsOf(fnIn)) :
              SegmentsOf(fnOut[1])[i] = Collapsed(SegmentsOf(fnIn)[i])
        /\ \A p \in 1..Len(fnOut[1]) : ~IsSpace(fnOut[1][p]) /\ fnOut[1][p] # BSL
        /\ fnPc = "pathTwice" => fnOut[2] = fnOut[1]

\* a path with a whitespace run of two characters and a backslash has been
\* sanitized twice
C19_RunAndBackslashSanitized ==
    /\ fnPc = "pathTwice"
    /\ fnIn = <<" ", TAB, BSL, "a">>
    /\ fnOut[1] = <<"_", "/", "a">>

-----------------------------------------------------------------------------
(* isDeleted on its own: one entry inside one folder of the vault *)

D_deletedFlag ==
    <<"-", "-", "-", NL, "d", "e", "l", "e", "t", "e", "d", ":", " ", "t", "r", "u", "e", NL,
      "-", "-", "-", NL, "h", "i">>
D_statusDeleted ==
    <<"-", "-", "-", NL, "s", "t", "a", "t", "u", "s", ":", " ",
      "d", "e", "l", "e", "t", "e", "d", NL, "-", "-", "-", NL, "h", "i">>

\* the names of the folder that holds the entry
AncestorNames ==
    {N_A,
     N_trash,
     <<"t", "r", "a", "s", "h", "c", "a", "n">>,
     <<"m", "y", " ", "d", "e", "l", "e", "t", "e", "d">>}

\* the names of the entry
OwnNames ==
    {N_x,
     <<"x", ".", "p", "n", "g">>,
     <<"x">>,
     N_trash,
     <<"T", "r", "a", "s", "h">>,
     <<"D", "E", "L", "E", "T", "E", "D">>,
     <<"d", "e", "l", "e", "t", "e", "d", "_", "x", ".", "m", "d">>,
     <<"T", "r", "a", "s", "h", "_", "x">>,
     <<"x", "_", "D", "e", "l", "e", "t", "e", "d">>,
     <<"x", "_", "t", "r", "a", "s", "h">>,
     <<"x", "_", "t", "r", "a", "s", "h", ".", "m", "d">>,
     <<"t", "r", "a", "s", "h", "c", "a", "n">>,
     <<"u", "n", "d", "e", "l", "e", "t", "e", "d", ".", "m", "d">>}

EntryTexts == {T_hi, D_header, D_deletedFlag, D_statusDeleted}

InitDeleted ==
    /\ fnIn \in [dir : AncestorNames, name : OwnNames, kind : {"file", "dir"}]
    /\ vaultKind = "dir"
    /\ present = {[ord |-> 1, path |-> <<fnIn.dir>>, kind |-> "dir", var |-> FALSE,
                   content |-> <<>>],
                  [ord |-> 2, path |-> <<fnIn.dir, fnIn.name>>, kind |-> fnIn.kind,
                   var |-> fnIn.kind = "file", content |-> <<>>]}
    /\ docText \in EntryTexts
    /\ fnIn.kind = "dir" => docText = T_hi
    /\ rev = FALSE
    /\ broken = None
    /\ pc = "off"
    /\ rootFolders = <<>>
    /\ needEmpty = <<>>
    /\ zip = <<>>
    /\ sets = <<>>
    /\ exitCode = -1
    /\ folderIdx = 0
    /\ fnOut = <<>>
    /\ fnPc = "deleted"

\* isDeleted(fullPath, entry.name)
CheckDeleted ==
    /\ fnPc = "deleted"
    /\ fnOut' = <<isDeleted(VaultPath \o <<fnIn.dir, fnIn.name>>, fnIn.name)>>
    /\ fnPc' = "deletedDone"
    /\ UNCHANGED <<fnIn, runVars>>

NextDeleted == CheckDeleted

SpecDeleted == InitDeleted /\ [][NextDeleted]_vars

\* the own name is an exclusion marker: without its case it is deleted or trash,
\* starts with deleted_ or trash_, or ends with _deleted or _trash
NameIsMarker(name) ==
    With(ToLower(name), LAMBDA l :
        \/ l = <<"d", "e", "l", "e", "t", "e", "d">>
        \/ l = <<"t", "r", "a", "s", "h">>
        \/ Len(l) >= 8 /\ Sub(l, 1, 8) = <<"d", "e", "l", "e", "t", "e", "d", "_">>
        \/ Len(l) >= 6 /\ Sub(l, 1, 6) = <<"t", "r", "a", "s", "h", "_">>
        \/ Len(l) >= 8 /\ From(l, Len(l) - 7) = <<"_", "d", "e", "l", "e", "t", "e", "d">>
        \/ Len(l) >= 6 /\ From(l, Len(l) - 5) = <<"_", "t", "r", "a", "s", "h">>)

\* the entry is a document whose header block declares it deleted
DeclaresDeleted ==
    /\ fnIn.kind = "file"
    /\ EndsWith(ToLower(fnIn.name), T_md)
    /\ docText \in {D_deletedFlag, D_statusDeleted}

\* C20: exclusion is per entry: isDeleted excludes an entry by name only when
\* the entry's own name, without its case, is deleted or trash, starts with
\* deleted_ or trash_, or ends with _deleted or _trash; the name of the folder
\* that holds the entry plays no part, also when it contains deleted or trash
C20_ExclusionIsPerEntry ==
    (fnPc = "deletedDone" /\ ~DeclaresDeleted) =>
        (fnOut[1] <=> NameIsMarker(fnIn.name))

\* an entry with an unmarked name inside a folder named trash was checked and
\* is not excluded
C20_UnmarkedInsideTrashIsKept ==
    /\ fnPc = "deletedDone"
    /\ fnIn = [dir |-> N_trash, name |-> N_x, kind |-> "file"]
    /\ docText = T_hi
    /\ fnOut = <<FALSE>>

-----------------------------------------------------------------------------
(* The reference resolver on its own: one document of a small vault *)

\* the largest number of nested directories above the deepest asset
MaxChain == 10

N_d == <<"d">>
D_selfLink == <<"[", "[", "x", "]", "]">>

Node(ord, p, kind) ==
    [ord |-> ord, path |-> p, kind |-> kind, var |-> kind = "doc",
     content |-> IF kind = "file" THEN PngBytes ELSE <<>>]

FileNode(ord, p) == Node(ord, p, "file")
DirNode(ord, p) == Node(ord, p, "dir")
DocNode(ord, p) == [Node(ord, p, "doc") EXCEPT !.kind = "file"]

\* the directory k of the chain: E, E/d, E/d/d, ...
ChainDir(k) == <<N_E>> \o [i \in 1..(k - 1) |-> N_d]

\* a chain of n nested directories with the asset c.png in the innermost
Chain(n) ==
    IF n = 0 THEN {}
    ELSE {DirNode(10 + k, ChainDir(k)) : k \in 1..n}
         \cup {FileNode(40, Append(ChainDir(n), N_c))}

\* the vaults of the resolver: folder A with the document x.md, and any of the
\* asset A/c.png, the folder attachments with c.png, the folder R with x.md and
\* with or without c.png, and a chain
ResolverVaults ==
    {{DirNode(1, <<N_A>>), DocNode(2, <<N_A, N_x>>)} \cup a \cup b \cup r \cup Chain(n) :
        a \in {{}, {FileNode(3, <<N_A, N_c>>)}},
        b \in {{}, {DirNode(4, <<N_attachments>>), FileNode(5, <<N_attachments, N_c>>)}},
        r \in {{},
               {DirNode(6, <<N_R>>), DocNode(7, <<N_R, N_x>>)},
               {DirNode(6, <<N_R>>), DocNode(7, <<N_R, N_x>>), FileNode(8, <<N_R, N_c>>)}},
        n \in 0..MaxChain}

ReferenceTexts == {D_selfLink, D_embed, D_image}

InitResolve ==
    /\ vaultKind = "dir"
    /\ present \in ResolverVaults
    /\ docText \in ReferenceTexts
    /\ rev \in BOOLEAN
    /\ fnIn \in {VaultPath \o n.path : n \in {m \in present : m.var}}
    /\ broken = None
    /\ pc = "off"
    /\ rootFolders = <<>>
    /\ needEmpty = <<>>
    /\ zip = <<>>
    /\ sets = <<>>
    /\ exitCode = -1
    /\ folderIdx = 0
    /\ fnOut = <<>>
    /\ fnPc = "resolve"

\* processMarkdownFile(fullPath, null, ...) of the document fnIn
ResolveReferences ==
    /\ fnPc = "resolve"
    /\ fnOut' = <<processMarkdownFile(fnIn, NoSetInfo)>>
    /\ fnPc' = "resolved"
    /\ UNCHANGED <<fnIn, runVars>>

NextResolve == ResolveReferences

SpecResolve == InitResolve /\ [][NextResolve]_vars

\* the references of the converted document
ResolvedLinks == Range(fnOut[1].wikiLinks) \cup Range(fnOut[1].imageLinks)

\* the file a reference names when it is looked up in the directory dir
NamedIn(dir, l) ==
    Append(dir, IF l.kind = "wiki" THEN l.ref \o T_md ELSE l.ref)

\* C21: resolution is ordered and the first match wins: a reference to a name
\* that exists in the directory of the document resolves to that file, whatever
\* else carries the name in the vault, and an asset that is only found by a
\* later direct lookup (the attachments folder of the vault) is taken from
\* there and not from a later search
C21_FirstMatchWins ==
    fnPc = "resolved" =>
        \A l \in ResolvedLinks :
            /\ IsFile(NamedIn(Dirname(fnIn), l)) => l.found = NamedIn(Dirname(fnIn), l)
            /\ (/\ l.kind # "wiki"
                /\ ~IsFile(NamedIn(Dirname(fnIn), l))
                /\ IsFile(<<VaultName, N_attachments, l.ref>>))
               => l.found = <<VaultName, N_attachments, l.ref>>

\* the document R/x.md refers to x, which is also the name of A/x.md, and the
\* reference resolved to R/x.md
C21_OwnDirectoryWins ==
    /\ fnPc = "resolved"
    /\ fnIn = <<VaultName, N_R, N_x>>
    /\ docText = D_selfLink
    /\ \E l \in ResolvedLinks : l.found = <<VaultName, N_R, N_x>>

\* the assets named name that lie in the vault on a path without a hidden or
\* excluded segment
VisibleAssets(name) ==
    {n \in present :
        /\ n.kind = "file"
        /\ n.path[Len(n.path)] = name
        /\ \A k \in 1..Len(n.path) :
              /\ ~IsHidden(n.path[k])
              /\ ~isDeleted(VaultPath \o Sub(n.path, 1, k), n.path[k])}

\* C22: the last-resort search covers the whole export root without a depth
\* bound: an asset that exists anywhere in the vault, however deeply nested, on
\* a path without a hidden or excluded segment, is found
C22_AssetIsFoundAtAnyDepth ==
    fnPc = "resolved" =>
        \A l \in Range(fnOut[1].imageLinks) :
            VisibleAssets(CleanImagePath(l.ref)) # {} => l.found # None /\ IsFile(l.found)

\* an asset that lies below MaxChain - 1 nested directories is found by the
\* last-resort search
DeepAssetIsFound ==
    /\ fnPc = "resolved"
    /\ VisibleAssets(N_c) = {FileNode(40, Append(ChainDir(MaxChain - 1), N_c))}
    /\ \E l \in Range(fnOut[1].imageLinks) : l.found = VaultPath \o Append(ChainDir(MaxChain - 1), N_c)

-----------------------------------------------------------------------------
(* buildFolderStructure on its own: the outline of the folder A of a vault *)

\* the largest depth below the vault of a directory of the outline
MaxOutlineDepth == 7

N_Attachments == <<"A", "t", "t", "a", "c", "h", "m", "e", "n", "t", "s">>

\* the directory at depth k below the vault: A, A/d, A/d/d, ...
OutlineDir(k) == <<N_A>> \o [i \in 1..(k - 1) |-> N_d]

\* the directories of the outline down to depth n, with the document x.md in
\* those of the depths in docs (in the vaults: none, the deepest, or the first
\* and the deepest)
OutlineChain(n, docs) ==
    {DirNode(10 + k, OutlineDir(k)) : k \in 1..n}
    \cup {DocNode(30 + k, Append(OutlineDir(k), N_x)) : k \in docs}

\* a subfolder of A with the role of attachments, holding a document and an
\* asset
AttachmentsFolder(name) ==
    {DirNode(1, <<N_A, name>>), DocNode(2, <<N_A, name, N_t>>),
     FileNode(3, <<N_A, name, N_c>>)}

OutlineVaults ==
    {OutlineChain(n, {k \in docs : k = 1} \cup {n : k \in docs \ {1}}) \cup att :
        n \in 1..MaxOutlineDepth,
        docs \in {{}, {2}, {1, 2}},
        att \in {{}} \cup {AttachmentsFolder(name) :
                              name \in {N_attachments, N_attachment, N_attachmentsX,
                                        N_Attachments}}}

InitOutline ==
    /\ vaultKind = "dir"
    /\ present \in OutlineVaults
    /\ docText = T_hi
    /\ rev \in BOOLEAN
    /\ fnIn \in 1..3
    /\ broken = None
    /\ pc = "off"
    /\ rootFolders = <<>>
    /\ needEmpty = <<>>
    /\ zip = <<>>
    /\ sets = <<>>
    /\ exitCode = -1
    /\ folderIdx = 0
    /\ fnOut = <<>>
    /\ fnPc = "outline"

\* buildFolderStructure(folder.path, vaultPath, headingLevel, 10, 0, 'A')
BuildOutline ==
    /\ fnPc = "outline"
    /\ fnOut' = <<buildFolderStructure(Append(VaultPath, N_A), VaultPath, fnIn, 10, 0, N_A)>>
    /\ fnPc' = "outlined"
    /\ UNCHANGED <<fnIn, runVars>>

NextOutline == BuildOutline

SpecOutline == InitOutline /\ [][NextOutline]_vars

\* the lines of the outline that are headings
HeadingLines(outline) ==
    SelectSeq(SplitOn(outline, NL), LAMBDA line : At(line, 1) = "#")

\* the deepest directory of the chain of the vault
ChainDepth == MaxOf({Len(n.path) : n \in {m \in present : m.kind = "dir" /\ m.ord >= 10}})

\* the heading of a directory named d at depth k when the outline starts at
\* level h
HeadingAt(h, k) ==
    [i \in 1..(IF h + k - 1 <= 6 THEN h + k - 1 ELSE 6) |-> "#"] \o <<" ">> \o N_d

\* C23: in the outline of buildFolderStructure a directory at depth d below the
\* root of the index is a heading of level min(headingLevel + d - 1, 6), and a
\* subfolder named attachments, attachment or attachments_* has no heading and
\* nothing of its content is in the outline
C23_HeadingLevelFollowsDepth ==
    fnPc = "outlined" =>
        /\ HeadingLines(fnOut[1]) = [k \in 1..(ChainDepth - 1) |-> HeadingAt(fnIn, k + 1)]
        /\ Find(ToLower(fnOut[1]), 1, N_attachment) = 0
        /\ Find(fnOut[1], 1, N_t) = 0

\* the outline of a vault with an attachments folder and a directory at depth
\* 7 was built from level 2: the deepest heading is capped at level 6
C23_DeepHeadingIsCapped ==
    /\ fnPc = "outlined"
    /\ fnIn = 2
    /\ ChainDepth = 7
    /\ \E n \in present : n.path = <<N_A, N_attachmentsX>>
    /\ Len(HeadingLines(fnOut[1])) = 6
    /\ HeadingLines(fnOut[1])[6] = <<"#", "#", "#", "#", "#", "#", " ">> \o N_d

-----------------------------------------------------------------------------
(* The links of the index *)

\* the targets of the document links of the index of the archive
IndexTargets ==
    UNION {TargetsOf(e.content) : e \in {f \in Range(zip) : f.kind = "index"}}

\* C24: every document link of the top-level index has a target that is,
\* byte for byte, the name of an entry appended to the archive in the same run
C24_IndexTargetsAreEntries ==
    (pc = "done" /\ broken = None) => IndexTargets \subseteq EntryNames

-----------------------------------------------------------------------------
(* The cache of set infos *)

\* C25: classification is memoized consistently: once getSetInfoForExport has
\* stored a descriptor for a directory and an export root, the descriptor stays
\* in the cache with the same name, the same root flag and the same owning root
\* container, also when two directories have names that differ only in case
C25_StoredDescriptorIsStable ==
    [][\A k \in DOMAIN sets :
          /\ k \in DOMAIN sets'
          /\ sets'[k].name = sets[k].name
          /\ sets'[k].isRootSet = sets[k].isRootSet
          /\ sets'[k].rootSet = sets[k].rootSet]_vars

-----------------------------------------------------------------------------
(* The names of the entries *)

\* C26: the names of the entries are unique per source file: two different
\* files of the vault that are both exported never get the same entry name
C26_EntryNamesAreUnique ==
    \A i, j \in FilePositions :
        zip[i].src # zip[j].src => zip[i].name # zip[j].name

\* C27: every source file is appended to the archive at most once in a run: no
\* top-level folder is traversed both as a root container and as an attachments
\* folder, so no entry is appended twice
C27_SourceIsAppendedOnce ==
    \A i, j \in FilePositions : zip[i].src = zip[j].src => i = j

-----------------------------------------------------------------------------
(* The tags and the text around code *)

\* C28: every tag that extractTags returns occurs literally in the text, as a
\* '#' followed by the tag: taking the code out of the text never joins what
\* stands before and after it into a tag that the text does not contain
C28_TagOccursInText ==
    fnPc = "tagsDone" =>
        \A i \in 1..Len(fnOut) : Find(fnIn, 1, <<"#">> \o fnOut[i]) # 0

-----------------------------------------------------------------------------
(* getRootSetForPathExport step by step: the walk upwards *)

\* the largest number of segments of a path given to getRootSetForPathExport
MaxWalkDepth == 3

WalkNames == {VaultName, <<"V">>, N_A, N_trash}

\* the absolute paths of at most MaxWalkDepth segments
WalkPaths == UNION {[1..n -> WalkNames] : n \in 0..MaxWalkDepth}

InitWalk ==
    /\ NoRun
    /\ fnIn \in [dirPath : WalkPaths, exportRootPath : {<<>>, VaultPath, Append(VaultPath, N_A)}]
    /\ fnOut = <<>>
    /\ fnPc = "walkCall"

\* the name of the root-level folder currentDir, null when it is deleted
RootSetNameOf(currentDir) ==
    IF ~isDeleted(currentDir, Basename(currentDir)) THEN Basename(currentDir) ELSE None

\* getRootSetForPathExport(dirPath, exportRootPath) up to its loop: it returns, or
\* it enters the loop with currentDir = dirPath
WalkCall ==
    /\ fnPc = "walkCall"
    /\ IF normalizePath(fnIn.dirPath) = normalizePath(fnIn.exportRootPath)
       THEN fnPc' = "walkReturned" /\ fnOut' = <<None>>
       ELSE IF isRootLevelFolder(fnIn.dirPath, fnIn.exportRootPath)
       THEN fnPc' = "walkReturned" /\ fnOut' = <<RootSetNameOf(fnIn.dirPath)>>
       ELSE fnPc' = "walkLoop" /\ fnOut' = <<fnIn.dirPath>>
    /\ UNCHANGED <<fnIn, runVars>>

\* one iteration of the while (true) loop, fnOut[1] being currentDir
WalkStep ==
    /\ fnPc = "walkLoop"
    /\ IF normalizePath(Dirname(fnOut[1])) = normalizePath(fnIn.exportRootPath)
       THEN fnPc' = "walkReturned" /\ fnOut' = <<RootSetNameOf(fnOut[1])>>
       ELSE IF normalizePath(fnIn.dirPath) = normalizePath(Dirname(fnOut[1]))
       THEN fnPc' = "walkReturned" /\ fnOut' = <<None>>
       ELSE fnPc' = "walkLoop" /\ fnOut' = <<Dirname(fnOut[1])>>
    /\ UNCHANGED <<fnIn, runVars>>

NextWalk == WalkCall \/ WalkStep

SpecWalk == InitWalk /\ [][NextWalk]_vars

\* the call is not suspended: a step that changes the state is taken
SpecWalkFair == SpecWalk /\ WF_vars(NextWalk)

\* C29: getRootSetForPathExport terminates for every directory and export root,
\* also for a directory that does not lie under the export root: the walk
\* upwards reaches a direct child of the export root or is stopped by its
\* safety check
C29_WalkTerminates == <>(fnPc = "walkReturned")

\* the walk is at the root of the file system and the loop goes on from there
WalkStuckAtRoot ==
    /\ fnPc = "walkLoop"
    /\ fnOut = <<<<>>>>
    /\ fnIn.dirPath = <<N_A, N_A>>
    /\ fnIn.exportRootPath = VaultPath

\* the steps of the walk agree with the result of getRootSetForPathExport
WalkAgreesWithFunction ==
    fnPc = "walkReturned" =>
        fnOut[1] = getRootSetForPathExport(fnIn.dirPath, fnIn.exportRootPath)

-----------------------------------------------------------------------------
(* The set field of the documents of the archive *)

\* the documents of the archive: the converted pages and the placeholders
DocumentEntries == {e \in Range(zip) : e.kind \in {"page", "placeholder"}}

\* the top-level folder in which a document entry is placed
TopFolderOf(e) ==
    IF e.src # <<>> THEN e.src[Len(VaultPath) + 1]
    ELSE CHOOSE name \in {rootFolders[i].name : i \in 1..Len(rootFolders)} :
             sanitizePathForLink(name) = SplitOn(e.name, "/")[1]

\* C30: every document entry of the archive whose header declares the type
\* SetLeaf, a synthesized placeholder included, has a set field equal to the
\* name of the top-level folder in which the entry is placed
C30_SetLeafNamesItsFolder ==
    \A e \in DocumentEntries :
        (/\ FrontmatterMatch(e.content).ok
         /\ HasKey(HeaderOf(e.content), T_type)
         /\ GetKey(HeaderOf(e.content), T_type) = Str(T_SetLeaf))
        => /\ HasKey(HeaderOf(e.content), T_set)
           /\ GetKey(HeaderOf(e.content), T_set) = Str(TopFolderOf(e))

=============================================================================
